---------------------------- MODULE Spec2Model ----------------------------
(***************************************************************************)
(* Mutation <-> structure correlation engine of the bioinformatics         *)
(* frontend: the energy-table parser (GlobalService.parseFullDat), the     *)
(* energy matrix builders (MutationAnalysisComponent.onSelectMutation and  *)
(* onShowAllHeatmap), and the heatmap click handler (the plotly_click      *)
(* callback of plotMutationHeatmap) with its structure file resolver and   *)
(* residue locator.                                                        *)
(*                                                                         *)
(* Text is modelled as a sequence of one-character strings, so that the    *)
(* regular expressions, case conversions and number conversions of the     *)
(* code are computed rather than assumed.                                  *)
(***************************************************************************)
EXTENDS Integers, Sequences, FiniteSets, TLC

(***************************************************************************)
(* Bounds of the model.                                                    *)
(***************************************************************************)
\* most structure files in the resultFiles list drawn for a session
MaxFiles == 2
\* most residues in a structure handed back by the rendering engine
MaxResidues == 2
\* fractional digits kept of a parsed energy (energies are integers in
\* units of 10^-FracDigits)
FracDigits == 2
\* most lines of a table document drawn for the matrix builders
MaxEntries == 2
\* most click handlers in flight besides the handler of the last click
MaxOverlap == 1

\* An optional value is a sequence of at most one element: <<>> is the
\* absent value (undefined, null, no match), <<v>> the value v.
\* NaN is the "missing" sentinel of a grid cell; a cell with energy e is <<e>>.
NaN == <<>>

(***************************************************************************)
(* Characters and strings.                                                 *)
(***************************************************************************)
LowerSeq == <<"a","b","c","d","e","f","g","h","i","j","k","l","m",
              "n","o","p","q","r","s","t","u","v","w","x","y","z">>
UpperSeq == <<"A","B","C","D","E","F","G","H","I","J","K","L","M",
              "N","O","P","Q","R","S","T","U","V","W","X","Y","Z">>
DigitSeq == <<"0","1","2","3","4","5","6","7","8","9">>

Range(s) == {s[i] : i \in DOMAIN s}
\* the character classes [a-z], [A-Z], \d and \s (as far as the modelled
\* texts go) of the regular expressions
LowerSet == Range(LowerSeq)
UpperSet == Range(UpperSeq)
DigitSet == Range(DigitSeq)
SpaceSet == {" ", "\t", "\r", "\n"}
IsLower(c) == c \in LowerSet
IsUpper(c) == c \in UpperSet
IsLetter(c) == IsLower(c) \/ IsUpper(c)
IsDigit(c) == c \in DigitSet
IsSpace(c) == c \in SpaceSet

IndexIn(s, c) == CHOOSE i \in DOMAIN s : s[i] = c
DigitVal(c) == IndexIn(DigitSeq, c) - 1

\* String.prototype.toLowerCase / toUpperCase, per character
LowerChar(c) == IF IsUpper(c) THEN LowerSeq[IndexIn(UpperSeq, c)] ELSE c
UpperChar(c) == IF IsLower(c) THEN UpperSeq[IndexIn(LowerSeq, c)] ELSE c
ToLowerCase(s) == [i \in DOMAIN s |-> LowerChar(s[i])]
ToUpperCase(s) == [i \in DOMAIN s |-> UpperChar(s[i])]

\* String.prototype.trim
Trim(s) ==
  LET keep == {i \in DOMAIN s : ~IsSpace(s[i])}
  IN IF keep = {} THEN <<>>
     ELSE LET lo == CHOOSE i \in keep : \A j \in keep : i <= j
              hi == CHOOSE i \in keep : \A j \in keep : j <= i
          IN SubSeq(s, lo, hi)

StartsWith(s, p) == Len(p) <= Len(s) /\ SubSeq(s, 1, Len(p)) = p
EndsWith(s, p) == Len(p) <= Len(s) /\ SubSeq(s, Len(s) - Len(p) + 1, Len(s)) = p

\* positions at which p occurs in s
Occurrences(s, p) ==
  {i \in 1..(Len(s) - Len(p) + 1) : SubSeq(s, i, i + Len(p) - 1) = p}

\* String.prototype.replace(p, '') with a string pattern: first occurrence only
RemoveFirst(s, p) ==
  IF Occurrences(s, p) = {} THEN s
  ELSE LET i == CHOOSE k \in Occurrences(s, p) : \A j \in Occurrences(s, p) : k <= j
       IN SubSeq(s, 1, i - 1) \o SubSeq(s, i + Len(p), Len(s))

\* String.prototype.split('\n')
RECURSIVE SplitLines(_)
SplitLines(s) ==
  IF \A i \in DOMAIN s : s[i] # "\n" THEN <<s>>
  ELSE LET i == CHOOSE k \in DOMAIN s :
                  s[k] = "\n" /\ \A j \in 1..(k - 1) : s[j] # "\n"
       IN <<SubSeq(s, 1, i - 1)>> \o SplitLines(SubSeq(s, i + 1, Len(s)))

RECURSIVE JoinLines(_)
JoinLines(ls) ==
  IF ls = <<>> THEN <<>>
  ELSE IF Len(ls) = 1 THEN ls[1]
  ELSE ls[1] \o <<"\n">> \o JoinLines(Tail(ls))

(***************************************************************************)
(* Numbers.                                                                *)
(***************************************************************************)
RECURSIVE Pow10(_)
Pow10(k) == IF k = 0 THEN 1 ELSE 10 * Pow10(k - 1)

\* value of a non-empty run of decimal digits
RECURSIVE DigitsValue(_)
DigitsValue(ds) ==
  IF ds = <<>> THEN 0
  ELSE 10 * DigitsValue(SubSeq(ds, 1, Len(ds) - 1)) + DigitVal(ds[Len(ds)])

\* String(n) of a non-negative integer
RECURSIVE NumToStr(_)
NumToStr(n) ==
  IF n < 10 THEN <<DigitSeq[n + 1]>>
  ELSE NumToStr(n \div 10) \o <<DigitSeq[(n % 10) + 1]>>

\* end of the longest run of characters of the class cls that starts at i
\* (i - 1 when s[i] is not in the class)
RECURSIVE RunEnd(_, _, _)
RunEnd(s, i, cls) ==
  IF i <= Len(s) /\ s[i] \in cls THEN RunEnd(s, i + 1, cls) ELSE i - 1

(***************************************************************************)
(* Energy Table Parser: GlobalService.parseFullDat.                        *)
(***************************************************************************)
GENERATED == <<"G","E","N","E","R","A","T","E","D">>
SMEHEC == <<"S","M","E","H","E","C">>
JOINING == <<"J","O","I","N","I","N","G">>
DotDat == <<".","d","a","t">>
DotPdb == <<".","p","d","b">>
UNK == <<"U","N","K">>

\* [A-Z0-9_]
IdClass == UpperSet \cup DigitSet \cup {"_"}

\* a filter that keeps the banner lines
KeepNonBlank(l) == l # <<>>

\* the filter of parseFullDat: a trimmed line is kept when it is non-empty
\* and starts with none of the three banner words
KeepLine(l) ==
  /\ l # <<>>
  /\ ~StartsWith(l, GENERATED)
  /\ ~StartsWith(l, SMEHEC)
  /\ ~StartsWith(l, JOINING)

\* the lines filtered as they are, and trimmed afterwards
FilterThenTrim(content) ==
  LET ls == SelectSeq(SplitLines(content), KeepLine)
  IN [i \in DOMAIN ls |-> Trim(ls[i])]

DataLines(content) ==
  LET ls == SplitLines(content)
  IN SelectSeq([i \in DOMAIN ls |-> Trim(ls[i])], KeepLine)

\* the match of /([A-Z0-9_]+)\s+(-?\d+(?:\.\d+)?)/ that begins at position i
\* of the line, if any: every quantifier is greedy, and giving a character
\* back never helps since the classes that follow each other are disjoint
LineMatchAt(line, i) ==
  LET idEnd == RunEnd(line, i, IdClass)
      wsEnd == RunEnd(line, idEnd + 1, SpaceSet)
      numStart == IF wsEnd + 1 <= Len(line) /\ line[wsEnd + 1] = "-"
                  THEN wsEnd + 2 ELSE wsEnd + 1
      intEnd == RunEnd(line, numStart, DigitSet)
      fracEnd == IF intEnd + 1 <= Len(line) /\ line[intEnd + 1] = "."
                 THEN RunEnd(line, intEnd + 2, DigitSet) ELSE intEnd
      numEnd == IF fracEnd >= intEnd + 2 THEN fracEnd ELSE intEnd
  IN IF idEnd < i \/ wsEnd < idEnd + 1 \/ intEnd < numStart THEN <<>>
     ELSE <<[id |-> SubSeq(line, i, idEnd), num |-> SubSeq(line, wsEnd + 1, numEnd)]>>

\* line.match(...): the leftmost match, if any
LineMatch(line) ==
  LET starts == {i \in DOMAIN line : LineMatchAt(line, i) # <<>>}
  IN IF starts = {} THEN <<>>
     ELSE LineMatchAt(line, CHOOSE i \in starts : \A j \in starts : i <= j)

\* parseFloat of a token -?\d+(\.\d+)?, in units of 10^-FracDigits
ParseFloat(num) ==
  LET neg == num[1] = "-"
      body == IF neg THEN Tail(num) ELSE num
      intEnd == RunEnd(body, 1, DigitSet)
      frac == SubSeq(body, intEnd + 2, Len(body))
      fracDigit(k) == IF k <= Len(frac) THEN frac[k] ELSE "0"
      fracVal == DigitsValue([k \in 1..FracDigits |-> fracDigit(k)])
      mag == DigitsValue(SubSeq(body, 1, intEnd)) * Pow10(FracDigits) + fracVal
  IN IF neg THEN 0 - mag ELSE mag

\* the last run of digits of the identifier, else 'UNK'
LastDigitRun(id) ==
  LET ds == {i \in DOMAIN id : IsDigit(id[i]) /\ (i = 1 \/ ~IsDigit(id[i - 1]))}
  IN IF ds = {} THEN UNK
     ELSE LET p == CHOOSE i \in ds : \A j \in ds : j <= i
          IN SubSeq(id, p, RunEnd(id, p, DigitSet))

\* id.match(/(\d+)/): the first run of digits of the identifier, else 'UNK'
ResidueOf(id) ==
  LET ds == {i \in DOMAIN id : IsDigit(id[i])}
  IN IF ds = {} THEN UNK
     ELSE LET p == CHOOSE i \in ds : \A j \in ds : i <= j
          IN SubSeq(id, p, RunEnd(id, p, DigitSet))

\* id.match(/([A-Z])$/): the last character when an uppercase letter, else '?'
MutantOf(id) == IF IsUpper(id[Len(id)]) THEN id[Len(id)] ELSE "?"

RECURSIVE ParseLines(_)
ParseLines(lines) ==
  IF lines = <<>> THEN <<>>
  ELSE LET m == LineMatch(Head(lines))
       IN (IF m = <<>> THEN <<>>
           ELSE <<[residue |-> ResidueOf(m[1].id),
                   mutant |-> MutantOf(m[1].id),
                   energy |-> ParseFloat(m[1].num)]>>)
          \o ParseLines(Tail(lines))

parseFullDat(content, filename) ==
  [file |-> RemoveFirst(filename, DotDat),
   entries |-> ParseLines(DataLines(content))]

(***************************************************************************)
(* Energy Matrix Builder: the matrix code of onSelectMutation and of       *)
(* onShowAllHeatmap.                                                       *)
(***************************************************************************)
\* a list kept as it is, duplicates included
KeepAll(s) == s

\* the distinct elements in the order of their last occurrence
RECURSIVE DistinctLastSeen(_)
DistinctLastSeen(s) ==
  IF s = <<>> THEN <<>>
  ELSE IF Head(s) \in Range(Tail(s)) THEN DistinctLastSeen(Tail(s))
  ELSE <<Head(s)>> \o DistinctLastSeen(Tail(s))

\* Array.from(new Set(s)): the distinct elements in first-seen order
RECURSIVE Distinct(_)
Distinct(s) ==
  IF s = <<>> THEN <<>>
  ELSE LET d == Distinct(SubSeq(s, 1, Len(s) - 1))
       IN IF s[Len(s)] \in Range(d) THEN d ELSE Append(d, s[Len(s)])

\* Array.prototype.indexOf, 1-based; 0 when absent (-1 in the code)
IndexOf(s, v) ==
  IF v \in Range(s) THEN CHOOSE i \in DOMAIN s : s[i] = v /\ \A j \in 1..(i - 1) : s[j] # v
  ELSE 0

\* a loop that writes a cell only when the energy is truthy
RECURSIVE FillTruthy(_, _, _, _)
FillTruthy(z, entries, residues, mutants) ==
  IF entries = <<>> THEN z
  ELSE LET e == Head(entries)
           y == IndexOf(residues, e.residue)
           x == IndexOf(mutants, e.mutant)
       IN FillTruthy(IF y # 0 /\ x # 0 /\ e.energy # 0
                     THEN [z EXCEPT ![y][x] = <<e.energy>>] ELSE z,
                     Tail(entries), residues, mutants)

\* a loop that never overwrites a cell
RECURSIVE FillOnce(_, _, _, _)
FillOnce(z, entries, residues, mutants) ==
  IF entries = <<>> THEN z
  ELSE LET e == Head(entries)
           y == IndexOf(residues, e.residue)
           x == IndexOf(mutants, e.mutant)
       IN FillOnce(IF y # 0 /\ x # 0 /\ z[y][x] = NaN
                   THEN [z EXCEPT ![y][x] = <<e.energy>>] ELSE z,
                   Tail(entries), residues, mutants)

\* the loop "for (const e of entries) { ... z[y][x] = e.energy }"
RECURSIVE FillGrid(_, _, _, _)
FillGrid(z, entries, residues, mutants) ==
  IF entries = <<>> THEN z
  ELSE LET e == Head(entries)
           y == IndexOf(residues, e.residue)
           x == IndexOf(mutants, e.mutant)
       IN FillGrid(IF y # 0 /\ x # 0 THEN [z EXCEPT ![y][x] = <<e.energy>>] ELSE z,
                   Tail(entries), residues, mutants)

\* all.flatMap(d => d.entries): the entries of the tables, in table order
RECURSIVE FlatEntries(_)
FlatEntries(all) ==
  IF all = <<>> THEN <<>> ELSE Head(all).entries \o FlatEntries(Tail(all))

\* onSelectMutation, lines 57-65: the matrix of one cached table
SingleMatrix(cached) ==
  LET residues == Distinct([i \in DOMAIN cached.entries |-> cached.entries[i].residue])
      mutants == Distinct([i \in DOMAIN cached.entries |-> cached.entries[i].mutant])
      z == [y \in DOMAIN residues |-> [x \in DOMAIN mutants |-> NaN]]
  IN [x |-> mutants, y |-> residues,
      z |-> FillGrid(z, cached.entries, residues, mutants)]

\* onShowAllHeatmap, lines 90-100: the matrix of all cached tables
CombinedMatrix(all) ==
  LET es == FlatEntries(all)
      residues == Distinct([i \in DOMAIN es |-> es[i].residue])
      mutants == Distinct([i \in DOMAIN es |-> es[i].mutant])
      z == [y \in DOMAIN residues |-> [x \in DOMAIN mutants |-> NaN]]
  IN [x |-> mutants, y |-> residues, z |-> FillGrid(z, es, residues, mutants)]

(***************************************************************************)
(* Structure File Resolver: the target search of the plotly_click handler. *)
(***************************************************************************)
AllMutations == <<"A","l","l"," ","M","u","t","a","t","i","o","n","s">>
JoinedProc == <<"j","o","i","n","e","d","_","p","r","o","c","_">>
InterEner == <<"i","n","t","e","r","_","e","n","e","r","_">>
PROC == <<"P","R","O","C">>

\* The regular expressions the handler builds with new RegExp(source, 'i')
\* are compiled from their source text.  An item of a compiled expression
\* matches one character: a literal (lit), or the class [a-z] (cls); opt
\* marks an item followed by the quantifier ?.
RECURSIVE Compile(_, _)
Compile(src, items) ==
  IF src = <<>> THEN items
  ELSE IF Head(src) \in {"^", "$"} THEN Compile(Tail(src), items)
  ELSE IF Head(src) = "?" THEN
         Compile(Tail(src),
                 IF items = <<>> THEN items
                 ELSE [items EXCEPT ![Len(items)].opt = TRUE])
  ELSE IF Head(src) = "[" THEN
         Compile(SubSeq(src, 6, Len(src)),
                 Append(items, [cls |-> TRUE, lit |-> "", opt |-> FALSE]))
  ELSE IF Head(src) = "\\" THEN
         Compile(SubSeq(src, 3, Len(src)),
                 Append(items, [cls |-> FALSE, lit |-> src[2], opt |-> FALSE]))
  ELSE Compile(Tail(src),
               Append(items, [cls |-> FALSE, lit |-> Head(src), opt |-> FALSE]))

\* one item against one character, under the flag 'i'
ItemMatches(it, c) ==
  IF it.cls THEN IsLetter(c) ELSE LowerChar(c) = LowerChar(it.lit)

\* the anchored expression against the whole of s
RECURSIVE MatchItems(_, _)
MatchItems(items, s) ==
  IF items = <<>> THEN s = <<>>
  ELSE \/ /\ s # <<>>
          /\ ItemMatches(Head(items), Head(s))
          /\ MatchItems(Tail(items), Tail(s))
       \/ /\ Head(items).opt
          /\ MatchItems(Tail(items), s)

\* new RegExp(source, 'i').test(f)
RegExpTest(source, f) == MatchItems(Compile(source, <<>>), f)

\* `^joined_proc_${clickedResidueNo}_[a-z]2${mutant}\\.pdb$`
relaxedRx(clickedResidueNo, mutant) ==
  <<"^">> \o JoinedProc \o NumToStr(clickedResidueNo)
    \o <<"_", "[", "a", "-", "z", "]", "2">> \o mutant
    \o <<"\\", ".", "p", "d", "b", "$">>

\* `^joined_proc_${clickedResidueNo}_${wildOne}2${mutant}\\.pdb$`
strictRx(clickedResidueNo, wildOne, mutant) ==
  <<"^">> \o JoinedProc \o NumToStr(clickedResidueNo)
    \o <<"_">> \o wildOne \o <<"2">> \o mutant
    \o <<"\\", ".", "p", "d", "b", "$">>

\* a search that returns the last file the expression matches
FindLastFile(files, source) ==
  LET hits == {i \in DOMAIN files : RegExpTest(source, files[i])}
  IN IF hits = {} THEN <<>>
     ELSE files[CHOOSE i \in hits : \A j \in hits : i >= j]

\* Array.prototype.find: the first file the expression matches, else <<>>
FindFile(files, source) ==
  LET hits == {i \in DOMAIN files : RegExpTest(source, files[i])}
  IN IF hits = {} THEN <<>>
     ELSE files[CHOOSE i \in hits : \A j \in hits : i <= j]

\* key.match(/inter_ener_([a-z]{3})(\d+)([a-z])$/i): the capture ([a-z]{3})
\* of the leftmost match as <<wild3>>, or <<>> without a match
rowMatch(key) ==
  LET n == Len(InterEner)
      At(p) ==
        /\ p + n + 2 <= Len(key)
        /\ ToLowerCase(SubSeq(key, p, p + n - 1)) = InterEner
        /\ \A k \in (p + n)..(p + n + 2) : IsLetter(key[k])
        /\ LET dEnd == RunEnd(key, p + n + 3, DigitSet)
           IN /\ dEnd >= p + n + 3
              /\ dEnd + 1 = Len(key)
              /\ IsLetter(key[Len(key)])
      starts == {p \in DOMAIN key : At(p)}
  IN IF starts = {} THEN <<>>
     ELSE LET p == CHOOSE q \in starts : \A r \in starts : q <= r
          IN <<SubSeq(key, p + n, p + n + 2)>>

\* the table threeToOne of the handler, as a sequence of key/value entries
threeToOne ==
  << [k |-> <<"a","l","a">>, v |-> <<"a">>], [k |-> <<"a","r","g">>, v |-> <<"r">>],
     [k |-> <<"a","s","n">>, v |-> <<"n">>], [k |-> <<"a","s","p">>, v |-> <<"d">>],
     [k |-> <<"c","y","s">>, v |-> <<"c">>], [k |-> <<"g","l","n">>, v |-> <<"q">>],
     [k |-> <<"g","l","u">>, v |-> <<"e">>], [k |-> <<"g","l","y">>, v |-> <<"g">>],
     [k |-> <<"h","i","s">>, v |-> <<"h">>], [k |-> <<"i","l","e">>, v |-> <<"i">>],
     [k |-> <<"l","e","u">>, v |-> <<"l">>], [k |-> <<"l","y","s">>, v |-> <<"k">>],
     [k |-> <<"m","e","t">>, v |-> <<"m">>], [k |-> <<"p","h","e">>, v |-> <<"f">>],
     [k |-> <<"p","r","o">>, v |-> <<"p">>], [k |-> <<"s","e","r">>, v |-> <<"s">>],
     [k |-> <<"t","h","r">>, v |-> <<"t">>], [k |-> <<"t","r","p">>, v |-> <<"w">>],
     [k |-> <<"t","y","r">>, v |-> <<"y">>], [k |-> <<"v","a","l">>, v |-> <<"v">>] >>

\* the table oneToThree of the handler
oneToThree ==
  << [k |-> <<"A">>, v |-> <<"A","L","A">>], [k |-> <<"R">>, v |-> <<"A","R","G">>],
     [k |-> <<"N">>, v |-> <<"A","S","N">>], [k |-> <<"D">>, v |-> <<"A","S","P">>],
     [k |-> <<"C">>, v |-> <<"C","Y","S">>], [k |-> <<"Q">>, v |-> <<"G","L","N">>],
     [k |-> <<"E">>, v |-> <<"G","L","U">>], [k |-> <<"G">>, v |-> <<"G","L","Y">>],
     [k |-> <<"H">>, v |-> <<"H","I","S">>], [k |-> <<"I">>, v |-> <<"I","L","E">>],
     [k |-> <<"L">>, v |-> <<"L","E","U">>], [k |-> <<"K">>, v |-> <<"L","Y","S">>],
     [k |-> <<"M">>, v |-> <<"M","E","T">>], [k |-> <<"F">>, v |-> <<"P","H","E">>],
     [k |-> <<"P">>, v |-> <<"P","R","O">>], [k |-> <<"S">>, v |-> <<"S","E","R">>],
     [k |-> <<"T">>, v |-> <<"T","H","R">>], [k |-> <<"W">>, v |-> <<"T","R","P">>],
     [k |-> <<"Y">>, v |-> <<"T","Y","R">>], [k |-> <<"V">>, v |-> <<"V","A","L">>] >>

\* table[key] || '': the value under key, else the empty string
Lookup(table, key) ==
  LET hits == {i \in DOMAIN table : table[i].k = key}
  IN IF hits = {} THEN <<>> ELSE table[CHOOSE i \in hits : TRUE].v

\* lines 190-203: the one-letter wild-type code the selected key decodes to,
\* '' when it decodes to none
wildOneOf(selected) ==
  LET m == rowMatch(selected)
  IN IF m = <<>> THEN <<>> ELSE Lookup(threeToOne, ToLowerCase(m[1]))

\* a resolver without the strict search
ResolveRelaxedOnly(selected, files, clickedResidueNo, mutant) ==
  FindFile(files, relaxedRx(clickedResidueNo, mutant))

\* a resolver without the relaxed fallback outside the combined view
ResolveStrictOnly(selected, files, clickedResidueNo, mutant) ==
  IF selected = AllMutations
  THEN FindFile(files, relaxedRx(clickedResidueNo, mutant))
  ELSE IF wildOneOf(selected) # <<>>
       THEN FindFile(files, strictRx(clickedResidueNo, wildOneOf(selected), mutant))
       ELSE <<>>

\* a resolver that falls back on the first file of the list
ResolveAnyFile(selected, files, clickedResidueNo, mutant) ==
  LET found == FindFile(files, relaxedRx(clickedResidueNo, mutant))
  IN IF found # <<>> \/ files = <<>> THEN found ELSE files[1]

\* lines 184-214: the target of a click, <<>> when no file is found
Resolve(selected, files, clickedResidueNo, mutant) ==
  IF selected = AllMutations
  THEN FindFile(files, relaxedRx(clickedResidueNo, mutant))
  ELSE LET wildOne == wildOneOf(selected)
           strict == IF wildOne # <<>>
                     THEN FindFile(files, strictRx(clickedResidueNo, wildOne, mutant))
                     ELSE <<>>
       IN IF strict # <<>> THEN strict
          ELSE FindFile(files, relaxedRx(clickedResidueNo, mutant))

\* target.match(/^joined_proc_(\d+)_([a-z])2([a-z])\.pdb$/i): the captures
\* <<[pos, wild, mut]>>, or <<>> without a match
fileMatch(target) ==
  LET n == Len(JoinedProc)
      dEnd == RunEnd(target, n + 1, DigitSet)
  IN IF /\ Len(target) >= n
        /\ ToLowerCase(SubSeq(target, 1, n)) = JoinedProc
        /\ dEnd >= n + 1
        /\ Len(target) = dEnd + 8
        /\ target[dEnd + 1] = "_"
        /\ IsLetter(target[dEnd + 2])
        /\ target[dEnd + 3] = "2"
        /\ IsLetter(target[dEnd + 4])
        /\ ToLowerCase(SubSeq(target, dEnd + 5, dEnd + 8)) = DotPdb
     THEN <<[pos |-> SubSeq(target, n + 1, dEnd),
             wild |-> target[dEnd + 2],
             mut |-> target[dEnd + 4]]>>
     ELSE <<>>

\* parseInt(digits, 10) of a run of digits
ParseInt(ds) == DigitsValue(ds)

\* lines 224-225: the residue number hint, an optional number
posFromNameOf(target) ==
  LET m == fileMatch(target)
  IN IF m = <<>> THEN <<>> ELSE <<ParseInt(m[1].pos)>>

\* lines 226-233: the mutant residue name hint, '' (undefined) when absent
mutantThreeOf(target) ==
  LET m == fileMatch(target)
  IN IF m = <<>> THEN <<>> ELSE Lookup(oneToThree, <<UpperChar(m[1].mut)>>)

(***************************************************************************)
(* Residue Locator: the residue search of the plotly_click handler.        *)
(* A residue of a loaded structure is a record                             *)
(*   [resno, resname, chainname, segid, atomCount].                        *)
(***************************************************************************)
\* GlobalService.normalizeChainNames (and the same loop at lines 247-249),
\* per residue: a residue without chain name takes its trimmed segment id
normalizeChainNames(structure) ==
  [i \in DOMAIN structure |->
     IF structure[i].chainname = <<>> /\ structure[i].segid # <<>>
     THEN [structure[i] EXCEPT !.chainname = Trim(structure[i].segid)]
     ELSE structure[i]]

\* lines 255-265: the ResInfo list read off the structure by eachResidue
ResInfoOf(structure) ==
  [i \in DOMAIN structure |->
     [resno |-> structure[i].resno,
      resname |-> ToUpperCase(structure[i].resname),
      chainname |-> structure[i].chainname,
      atomCount |-> structure[i].atomCount]]

ByResno(r, n) == r.resno = n
\* residues.filter(r => r.resno === n)
FilterResno(residues, n) ==
  LET Keep(r) == ByResno(r, n) IN SelectSeq(residues, Keep)
\* residues.filter(r => r.resname === name)
FilterResname(residues, name) ==
  LET Keep(r) == r.resname = name IN SelectSeq(residues, Keep)

\* a search by the clicked residue number alone
FindByClickedNumber(residues, posFromName, mutantThree, clickedResidueNo) ==
  FilterResno(residues, clickedResidueNo)

\* a search by the two hints alone
FindByHints(residues, posFromName, mutantThree, clickedResidueNo) ==
  LET c1 == IF posFromName # <<>> THEN FilterResno(residues, posFromName[1])
            ELSE <<>>
  IN IF c1 = <<>> /\ mutantThree # <<>>
     THEN FilterResname(residues, mutantThree) ELSE c1

\* a search that guesses every residue when the three tiers yield none
FindOrGuess(residues, posFromName, mutantThree, clickedResidueNo) ==
  LET c2 == FindByHints(residues, posFromName, mutantThree, clickedResidueNo)
      c3 == IF c2 = <<>> THEN FilterResno(residues, clickedResidueNo) ELSE c2
  IN IF c3 = <<>> THEN residues ELSE c3

\* lines 270-282: the candidates of the three tiers; posFromName is an
\* optional number, mutantThree a string ('' when undefined)
FindCandidates(residues, posFromName, mutantThree, clickedResidueNo) ==
  LET c1 == IF posFromName # <<>> THEN FilterResno(residues, posFromName[1])
            ELSE <<>>
      c2 == IF c1 = <<>> /\ mutantThree # <<>>
            THEN FilterResname(residues, mutantThree) ELSE c1
      c3 == IF c2 = <<>> THEN FilterResno(residues, clickedResidueNo) ELSE c2
  IN c3

\* Array.prototype.sort((a, b) => b.atomCount - a.atomCount): stable, by
\* descending atom count
RECURSIVE SortByAtomCount(_)
SortByAtomCount(s) ==
  IF s = <<>> THEN <<>>
  ELSE LET rest == SortByAtomCount(SubSeq(s, 1, Len(s) - 1))
           e == s[Len(s)]
           k == Cardinality({i \in DOMAIN rest : rest[i].atomCount >= e.atomCount})
       IN SubSeq(rest, 1, k) \o <<e>> \o SubSeq(rest, k + 1, Len(rest))

\* candidates.filter(r => r.chainname.toUpperCase() === 'PROC')
preferProcOf(candidates) ==
  LET Keep(r) == ToUpperCase(r.chainname) = PROC IN SelectSeq(candidates, Keep)

\* a choice by atom count alone
ChooseByAtomCount(candidates) == SortByAtomCount(candidates)[1]

\* lines 294-296: the chosen residue of a non-empty candidate list
Choose(candidates) ==
  LET preferProc == preferProcOf(candidates)
  IN SortByAtomCount(IF preferProc # <<>> THEN preferProc ELSE candidates)[1]

\* lines 298-299: the selection of the chosen residue, chain '' when the
\* selection string carries no chain
selectionOf(chosen) ==
  [chain |-> Trim(chosen.chainname), resno |-> chosen.resno]

(***************************************************************************)
(* The inputs: what the remote job, the rendering engine and the user can  *)
(* hand to the program.                                                    *)
(***************************************************************************)
StructureName(resno, wild, mutant) ==
  JoinedProc \o resno \o <<"_", wild, "2">> \o mutant \o DotPdb

\* joined_proc_60_e2a.pdb
File60E2A == StructureName(<<"6","0">>, "e", <<"a">>)
\* joined_proc_60_D2A.pdb
File60D2A == StructureName(<<"6","0">>, "D", <<"A">>)
\* joined_proc_60_e2.pdb
File60E2 == StructureName(<<"6","0">>, "e", <<>>)
\* joined_proc_160_e2a.pdb
File160E2A == StructureName(<<"1","6","0">>, "e", <<"a">>)
\* inter_ener_glu60c and inter_ener_xyz7c, and their files
KeyGlu60c == InterEner \o <<"g","l","u","6","0","c">>
KeyXyz7c == InterEner \o <<"x","y","z","7","c">>
FileGlu60c == KeyGlu60c \o DotDat
FileXyz7c == KeyXyz7c \o DotDat
\* a key no table is cached under
KeyScan == <<"s","c","a","n">>

StructureFiles == {File60E2A, File60D2A, File60E2, File160E2A}
TableFiles == {FileGlu60c, FileXyz7c}

\* the documents of the two energy tables
DocGlu60c ==
  JoinLines(<< <<"G","E","N","E","R","A","T","E","D"," ","B","Y"," ","X">>,
               <<"P","R","O","C","_","6","0","_","E","2","A"," ","-","3",".","4","5">>,
               <<>>,
               <<" ","P","R","O","C","_","1","6","0","_","E","2","D","\t","0"," ">>,
               <<"n","o","t","e",":"," ","d","o","n","e">> >>)
DocXyz7c ==
  JoinLines(<< <<"P","R","O","C","_","6","0"," ","2",".","5">>,
               <<"U","N","K","_","A"," ","-","1">>,
               <<"P","R","O","C","_","6","0","_","E","2","A"," ","7">> >>)

\* the text the file source holds under the name of each table
Docs == [f \in TableFiles |-> IF f = FileGlu60c THEN DocGlu60c ELSE DocXyz7c]

Residue(resno, resname, chainname, segid, atomCount) ==
  [resno |-> resno, resname |-> resname, chainname |-> chainname,
   segid |-> segid, atomCount |-> atomCount]

ResiduePool ==
  { Residue(60, <<"A","L","A">>, <<"P","R","O","C">>, <<>>, 5),
    Residue(60, <<"a","l","a">>, <<"A">>, <<>>, 10),
    Residue(61, <<"A","L","A">>, <<>>, <<"p","r","o","c"," ">>, 7),
    Residue(60, <<"G","L","U">>, <<>>, <<>>, 12) }

\* the structures the rendering engine can hand back for a file
Structures == UNION {[1..k -> ResiduePool] : k \in 0..MaxResidues}

\* a structure with residue 60 in chain PROC and, with more atoms, in chain A
Structure60 ==
  << Residue(60, <<"a","l","a">>, <<"A">>, <<>>, 10),
     Residue(60, <<"A","L","A">>, <<"P","R","O","C">>, <<>>, 5) >>

\* the lists without repetition of at most n elements of S
ListsOf(S, n) ==
  {fs \in UNION {[1..k -> S] : k \in 0..n} :
     \A i, j \in DOMAIN fs : i # j => fs[i] # fs[j]}

\* the lists of energy tables a job can report: at least one
TableLists == ListsOf(TableFiles, Cardinality(TableFiles)) \ {<<>>}

\* the file lists a job can report: energy tables and at most MaxFiles
\* structure files
FileLists ==
  {ts \o ps : ts \in TableLists, ps \in ListsOf(StructureFiles, MaxFiles)}

\* the file lists of a job on residue 60 of the glu60c table
FileLists60 ==
  {ts \o ps : ts \in {<<FileGlu60c>>, <<FileGlu60c, FileXyz7c>>},
              ps \in ListsOf({File60E2A, File60D2A}, MaxFiles)}

\* the lines a drawn energy table is made of
LinePool ==
  { <<"P","R","O","C","_","6","0","_","E","2","A"," ","-","3",".","4","5">>,
    <<"P","R","O","C","_","6","0"," ","2",".","5">>,
    <<"U","N","K","_","A"," ","-","1">> }

\* the documents of at most MaxEntries lines
DocPool == {JoinLines(ls) : ls \in UNION {[1..k -> LinePool] : k \in 0..MaxEntries}}

\* lines that meet on a cell, with energy 0, and with a lower residue number
FillPool ==
  { <<"P","R","O","C","_","6","0","_","E","2","A"," ","-","3",".","4","5">>,
    <<"P","R","O","C","_","6","0","_","D","2","A"," ","0">>,
    <<"P","R","O","C","_","7","_","K","2","D","\t","1",".","5"," ">> }

\* the documents of at most MaxEntries of these lines
FillDocPool == {JoinLines(ls) : ls \in UNION {[1..k -> FillPool] : k \in 0..MaxEntries}}

\* the file lists of a job with both tables and one structure file
FileLists1 == {<<FileGlu60c, FileXyz7c, f>> : f \in StructureFiles}

(***************************************************************************)
(* Mutation Data Cache: GlobalService.parsedByFile, a sequence of          *)
(* [key, table] entries in insertion order.                                *)
(***************************************************************************)
HasSuffixDat(f) == EndsWith(f, DotDat)
HasSuffixPdb(f) == EndsWith(f, DotPdb)

\* file.replace(/\.dat$/i, '')
KeyOfFile(file) ==
  IF Len(file) >= 4 /\ ToLowerCase(SubSeq(file, Len(file) - 3, Len(file))) = DotDat
  THEN SubSeq(file, 1, Len(file) - 4) ELSE file

\* parsedByFile[key] = parsed
CachePut(cache, key, parsed) ==
  IF \E i \in DOMAIN cache : cache[i].key = key
  THEN [i \in DOMAIN cache |->
          IF cache[i].key = key THEN [key |-> key, table |-> parsed] ELSE cache[i]]
  ELSE Append(cache, [key |-> key, table |-> parsed])

\* a lookup that takes a table without entries for a missing one
CacheGetNonEmpty(cache, key) ==
  LET hits == {i \in DOMAIN cache : cache[i].key = key /\ cache[i].table.entries # <<>>}
  IN IF hits = {} THEN <<>> ELSE <<cache[CHOOSE i \in hits : TRUE].table>>

\* parsedByFile[key], an optional table
CacheGet(cache, key) ==
  LET hits == {i \in DOMAIN cache : cache[i].key = key}
  IN IF hits = {} THEN <<>> ELSE <<cache[CHOOSE i \in hits : TRUE].table>>

\* Object.keys(parsedByFile) and Object.values(parsedByFile)
CacheKeys(cache) == [i \in DOMAIN cache |-> cache[i].key]
CacheValues(cache) == [i \in DOMAIN cache |-> cache[i].table]

\* loadDatFilesAndPlot, lines 189-197: every table file is fetched, parsed
\* and put in the cache, in list order
RECURSIVE LoadDatFiles(_, _, _)
LoadDatFiles(cache, datFiles, docs) ==
  IF datFiles = <<>> THEN cache
  ELSE LoadDatFiles(CachePut(cache, KeyOfFile(Head(datFiles)),
                             parseFullDat(docs[Head(datFiles)], Head(datFiles))),
                    Tail(datFiles), docs)

(***************************************************************************)
(* The state.                                                              *)
(***************************************************************************)
VARIABLES
  resultFiles,       \* GlobalService.resultFiles
  pdbStructure,      \* the structure the job's structure files hold, as the
                     \* rendering engine parses it
  parsedByFile,      \* GlobalService.parsedByFile
  datMutations,      \* GlobalService.datMutations
  selectedMutation,  \* MutationAnalysisComponent.selectedMutation
  heatmap,           \* the matrix the charting engine displays, optional
  stage,             \* GlobalService.stage: [created, comps]
  loading,           \* the loading indicator (SpinnerComponentService)
  toasts,            \* the toasts raised by the last step
  requests,          \* the zoom and scroll requests issued by the last step
  returned,          \* the locals of the click handler that returned in the
                     \* last step, optional
  click,             \* the plotly_click handler in flight
  sel,               \* the onSelectMutation call in flight
  servedText,        \* the text of the table files, as the job serves it
  zipMode,           \* GlobalService.zipMode
  zipData,           \* GlobalService.zipData, optional: the opened archive
  polls,             \* the waitForResults calls made, one polling loop each
  archive,           \* the loadExistingJob call in flight
  sessions,          \* the kinds of the sessions started so far, in order:
                     \* "remote" (onGoClick) or "archive" (loadExistingJob)
  form,              \* PdbInputFormComponent.form, with pdbFile: whether a
                     \* structure file is chosen
  others,            \* the plotly_click handlers of earlier clicks that are
                     \* still in flight
  refresh,           \* the structure files the last refreshViewer call went
                     \* through
  exported           \* what the last exportResults call read and packed,
                     \* optional

\* the state of the two ways of starting a session
sessionVars == <<servedText, zipMode, zipData, polls, archive, sessions, form,
                 refresh, exported>>

vars == <<resultFiles, pdbStructure, parsedByFile, datMutations, selectedMutation,
          heatmap, stage, loading, toasts, requests, returned, click, sel,
          sessionVars, others>>

\* a sequence without its element c
RemoveAt(s, c) == SubSeq(s, 1, c - 1) \o SubSeq(s, c + 1, Len(s))

Toast(level, msg, file, resno, name, chain) ==
  [level |-> level, msg |-> msg, file |-> file, resno |-> resno,
   name |-> name, chain |-> chain]

Cartoon == [type |-> "cartoon", sele |-> <<>>]
BallAndStick(sele) == [type |-> "ball+stick", sele |-> <<sele>>]

IdleClick ==
  [pc |-> "idle", resno |-> <<>>, mutant |-> <<>>, target |-> <<>>,
   posFromName |-> <<>>, mutantThree |-> <<>>, comp |-> 0,
   structure |-> <<>>, residues |-> <<>>, candidates |-> <<>>,
   chosen |-> <<>>, log |-> <<>>]

\* no archive is being opened; n counts the archives chosen so far, reads
\* are the reads of structure entries the last load made
IdleArchive == [pc |-> "idle", file |-> <<>>, n |-> 0, reads |-> <<>>]

IdleSel == [pc |-> "idle", cached |-> <<>>, file |-> <<>>, data |-> <<>>]

\* the form as PdbInputFormComponent constructs it (lines 16-24)
EmptyForm ==
  [pdbFile |-> FALSE, protein_chains |-> <<>>, partner_chains |-> <<>>,
   mutations |-> <<>>, detect_interface |-> FALSE]

\* a form onGoClick accepts
FilledForm ==
  [pdbFile |-> TRUE, protein_chains |-> <<"A">>, partner_chains |-> <<"B">>,
   mutations |-> <<>>, detect_interface |-> TRUE]

\* the session after the results of a job have been loaded
\* (waitForResults, lines 142-165): resultFiles holds the reported list, the
\* structure files are in the viewer, the tables are in the cache and the
\* combined heatmap is displayed.  It is the only session so far, a remote
\* one, and its polling loop, which has stopped, is not kept.
SessionInit(files, docs, structure) ==
  LET pdbFiles == SelectSeq(files, HasSuffixPdb)
      datFiles == SelectSeq(files, HasSuffixDat)
      cache == LoadDatFiles(<<>>, datFiles, docs)
  IN /\ resultFiles = files
     /\ pdbStructure = structure
     /\ parsedByFile = cache
     /\ datMutations = CacheKeys(cache)
     /\ stage = [created |-> TRUE,
                 comps |-> [i \in DOMAIN pdbFiles |->
                              [file |-> pdbFiles[i], reprs |-> <<Cartoon>>]]]
     /\ selectedMutation = IF cache # <<>> THEN AllMutations ELSE <<>>
     /\ heatmap = IF cache # <<>> THEN <<CombinedMatrix(CacheValues(cache))>>
                  ELSE <<>>
     /\ loading = FALSE
     /\ toasts = <<>>
     /\ requests = <<>>
     /\ returned = <<>>
     /\ click = IdleClick
     /\ sel = IdleSel
     /\ servedText = docs
     /\ zipMode = FALSE
     /\ zipData = <<>>
     /\ polls = <<>>
     /\ archive = IdleArchive
     /\ sessions = <<"remote">>
     /\ form = [FilledForm EXCEPT !.pdbFile = FALSE]
     /\ others = <<>>
     /\ refresh = <<>>
     /\ exported = <<>>

Init == \E files \in FileLists60 : SessionInit(files, Docs, Structure60)

(***************************************************************************)
(* onSelectMutation and onShowAllHeatmap.                                  *)
(***************************************************************************)
\* onSelectMutation up to its await (lines 40-52)
SelectStart(mutation) ==
  /\ sel.pc = "idle"
  /\ selectedMutation' = mutation
  /\ LET cached == CacheGet(parsedByFile, mutation)
     IN IF cached = <<>>
        THEN /\ toasts' = <<Toast("error", "Mutation not found in ZIP",
                                  <<>>, <<>>, <<>>, <<>>)>>
             /\ sel' = IdleSel
        ELSE /\ toasts' = <<>>
             /\ sel' = [IdleSel EXCEPT
                          !.pc = "fetch",
                          !.cached = cached,
                          !.file = IF EndsWith(mutation, DotDat) THEN mutation
                                   ELSE mutation \o DotDat]
  /\ requests' = <<>>
  /\ returned' = <<>>
  /\ UNCHANGED <<sessionVars, others, resultFiles, pdbStructure, parsedByFile, datMutations,
                 heatmap, stage, loading, click>>

\* the await of getFile settles (a rejection is caught), then the matrix of
\* the table is built and the 50 ms timer is armed (lines 53-66)
SelectFetched ==
  /\ sel.pc = "fetch"
  /\ sel' = [sel EXCEPT !.pc = "timer", !.data = <<SingleMatrix(sel.cached[1])>>]
  /\ toasts' = <<>>
  /\ requests' = <<>>
  /\ returned' = <<>>
  /\ UNCHANGED <<sessionVars, others, resultFiles, pdbStructure, parsedByFile, datMutations, selectedMutation,
                 heatmap, stage, loading, click>>

\* the 50 ms timer fires: plotMutationHeatmap(data)
SelectPlot ==
  /\ sel.pc = "timer"
  /\ heatmap' = sel.data
  /\ sel' = IdleSel
  /\ toasts' = <<>>
  /\ requests' = <<>>
  /\ returned' = <<>>
  /\ UNCHANGED <<sessionVars, others, resultFiles, pdbStructure, parsedByFile, datMutations, selectedMutation,
                 stage, loading, click>>

\* onShowAllHeatmap (lines 86-105)
ShowAllHeatmap ==
  /\ LET all == CacheValues(parsedByFile)
     IN IF all = <<>>
        THEN UNCHANGED <<selectedMutation, heatmap>>
        ELSE /\ selectedMutation' = AllMutations
             /\ heatmap' = <<CombinedMatrix(all)>>
  /\ toasts' = <<>>
  /\ requests' = <<>>
  /\ returned' = <<>>
  /\ UNCHANGED <<sessionVars, others, resultFiles, pdbStructure, parsedByFile, datMutations, stage, loading,
                 click, sel>>

(***************************************************************************)
(* The plotly_click handler (plotMutationHeatmap, lines 172-326).          *)
(***************************************************************************)
\* parseInt(String(y).replace(/[^\d]/g, ''), 10): an optional number, absent
\* for NaN
clickedResidueNoOf(y) ==
  LET ds == SelectSeq(y, IsDigit)
  IN IF ds = <<>> THEN <<>> ELSE <<ParseInt(ds)>>

\* String(x).trim().toLowerCase()
mutantOf(x) == ToLowerCase(Trim(<<x>>))

\* the tier that resolved the target: the strict search is made, and wins,
\* only outside the combined view and with a decoded wild-type letter
TierOf(selected, files, clickedResidueNo, mutant) ==
  IF /\ selected # AllMutations
     /\ wildOneOf(selected) # <<>>
     /\ FindFile(files, strictRx(clickedResidueNo, wildOneOf(selected), mutant)) # <<>>
  THEN "strict" ELSE "relaxed"

\* the handler up to its first await (lines 173-239), for a click on the
\* cell with row label y and column label x of the displayed heatmap
ClickBegin(y, x) ==
  /\ LET no == clickedResidueNoOf(y)
         mutant == mutantOf(x)
         target == Resolve(selectedMutation, resultFiles, no[1], mutant)
         began == [IdleClick EXCEPT !.resno = no, !.mutant = mutant]
     IN IF ~stage.created
        THEN /\ toasts' = <<Toast("warning", "Viewer not ready yet.",
                                  <<>>, <<>>, <<>>, <<>>)>>
             /\ returned' = <<[began EXCEPT !.log = <<"warning">>]>>
             /\ UNCHANGED <<loading, click>>
        ELSE IF no = <<>>
        THEN /\ toasts' = <<Toast("warning",
                                  "Could not read residue number from heatmap.",
                                  <<>>, <<>>, <<>>, <<>>)>>
             /\ returned' = <<[began EXCEPT !.log = <<"warning">>]>>
             /\ UNCHANGED <<loading, click>>
        ELSE IF target = <<>>
        THEN /\ toasts' = <<Toast("warning", "No PDB found for residue",
                                  <<>>, no, ToUpperCase(mutant), <<>>)>>
             /\ returned' = <<[began EXCEPT !.log = <<"warning">>]>>
             /\ UNCHANGED <<loading, click>>
        ELSE /\ toasts' = <<>>
             /\ loading' = TRUE
             /\ returned' = <<>>
             /\ click' = [began EXCEPT
                            !.pc = "fetch",
                            !.target = target,
                            !.posFromName = posFromNameOf(target),
                            !.mutantThree = mutantThreeOf(target),
                            !.log = <<TierOf(selectedMutation, resultFiles,
                                             no[1], mutant),
                                      "getFile">>]
  /\ requests' = <<>>
  /\ UNCHANGED <<sessionVars, resultFiles, pdbStructure, parsedByFile, datMutations, selectedMutation,
                 heatmap, stage, sel>>

\* a click while no handler is in flight
ClickStart(y, x) ==
  /\ click.pc = "idle"
  /\ ClickBegin(y, x)
  /\ UNCHANGED others

\* a click while the handler of the click before is in flight: nothing
\* keeps the new handler from starting, and both go on
ClickAgain(y, x) ==
  /\ click.pc # "idle"
  /\ Len(others) < MaxOverlap
  /\ ClickBegin(y, x)
  /\ others' = IF returned' = <<>> THEN Append(others, click) ELSE others

\* removeAllComponents takes from the handlers in flight the components
\* they loaded: what they add to them is no longer in the viewer
Detached(hs) == [k \in DOMAIN hs |-> [hs[k] EXCEPT !.comp = 0]]

\* the catch block (lines 321-325)
ClickCatch ==
  /\ loading' = FALSE
  /\ toasts' = <<Toast("error", "Could not load PDB for",
                       click.target, <<>>, <<>>, <<>>)>>
  /\ returned' = <<[click EXCEPT !.pc = "idle",
                                 !.log = Append(click.log, "error")]>>
  /\ click' = IdleClick
  /\ requests' = <<>>

\* a handler that calls loadFile without emptying the viewer
ClickFetchedKeeps ==
  /\ click.pc = "fetch"
  /\ click' = [click EXCEPT !.pc = "load",
                            !.log = click.log \o <<"fetched", "loadFile">>]
  /\ toasts' = <<>>
  /\ requests' = <<>>
  /\ returned' = <<>>
  /\ UNCHANGED <<sessionVars, others, resultFiles, pdbStructure, parsedByFile, datMutations,
                 selectedMutation, heatmap, stage, loading, sel>>

\* getFile resolves: removeAllComponents, then loadFile is called
\* (lines 239-244)
ClickFetched ==
  /\ click.pc = "fetch"
  /\ stage' = [stage EXCEPT !.comps = <<>>]
  /\ click' = [click EXCEPT !.pc = "load",
                            !.log = click.log \o <<"fetched", "removed", "loadFile">>]
  /\ toasts' = <<>>
  /\ requests' = <<>>
  /\ returned' = <<>>
  /\ others' = Detached(others)
  /\ UNCHANGED <<sessionVars, resultFiles, pdbStructure, parsedByFile, datMutations, selectedMutation,
                 heatmap, loading, sel>>

\* a handler that had emptied the viewer before it asked for the file
ClickFetchFailedClears ==
  /\ click.pc = "fetch"
  /\ ClickCatch
  /\ stage' = [stage EXCEPT !.comps = <<>>]
  /\ UNCHANGED <<sessionVars, others, resultFiles, pdbStructure, parsedByFile, datMutations,
                 selectedMutation, heatmap, sel>>

\* getFile rejects
ClickFetchFailed ==
  /\ click.pc = "fetch"
  /\ ClickCatch
  /\ UNCHANGED <<sessionVars, others, resultFiles, pdbStructure, parsedByFile, datMutations, selectedMutation,
                 heatmap, stage, sel>>

\* loadFile resolves with a component: chain names are normalized and the
\* cartoon is added, then the handler waits 60 ms (lines 244-253)
ClickLoaded ==
  /\ click.pc = "load"
  /\ stage' = [stage EXCEPT !.comps =
                 Append(stage.comps, [file |-> click.target, reprs |-> <<Cartoon>>])]
  /\ click' = [click EXCEPT
                 !.pc = "settle",
                 !.comp = Len(stage.comps) + 1,
                 !.structure = normalizeChainNames(pdbStructure),
                 !.log = click.log \o <<"loaded", "normalized", "cartoon">>]
  /\ toasts' = <<>>
  /\ requests' = <<>>
  /\ returned' = <<>>
  /\ UNCHANGED <<sessionVars, others, resultFiles, pdbStructure, parsedByFile, datMutations, selectedMutation,
                 heatmap, loading, sel>>

\* loadFile rejects
ClickLoadFailed ==
  /\ click.pc = "load"
  /\ ClickCatch
  /\ UNCHANGED <<sessionVars, others, resultFiles, pdbStructure, parsedByFile, datMutations, selectedMutation,
                 heatmap, stage, sel>>

\* a component that ignores the representation
AddNoRepresentation(comps, comp, repr) == comps

\* comp.addRepresentation(repr): the component, when still in the viewer,
\* gains the representation
AddRepresentation(comps, comp, repr) ==
  [i \in DOMAIN comps |->
     IF i = comp THEN [comps[i] EXCEPT !.reprs = Append(comps[i].reprs, repr)]
     ELSE comps[i]]

\* the 60 ms timer fires: the residues are enumerated and the mutated
\* residue is located, highlighted and focused (lines 255-319)
ClickLocate ==
  /\ click.pc = "settle"
  /\ LET residues == ResInfoOf(click.structure)
         candidates == FindCandidates(residues, click.posFromName,
                                      click.mutantThree, click.resno[1])
         located == [click EXCEPT !.pc = "idle", !.residues = residues,
                                  !.candidates = candidates]
     IN IF candidates = <<>>
        THEN /\ loading' = FALSE
             /\ toasts' = <<Toast("warning", "Could not locate the mutated residue in",
                                  click.target, click.posFromName,
                                  click.mutantThree, <<>>)>>
             /\ returned' = <<[located EXCEPT
                                 !.log = click.log \o <<"enumerated", "warning">>]>>
             /\ requests' = <<>>
             /\ UNCHANGED stage
        ELSE LET chosen == Choose(candidates)
                 sele == selectionOf(chosen)
             IN /\ stage' = [stage EXCEPT !.comps =
                               AddRepresentation(stage.comps, click.comp,
                                                 BallAndStick(sele))]
                /\ requests' = <<"zoom", "scroll">>
                /\ loading' = FALSE
                /\ toasts' = <<Toast("info", "Loaded", click.target,
                                     <<chosen.resno>>, chosen.resname, sele.chain)>>
                /\ returned' = <<[located EXCEPT
                                    !.chosen = <<chosen>>,
                                    !.log = click.log \o
                                       <<"enumerated", "located", "highlight",
                                         "zoom", "info", "scroll">>]>>
  /\ click' = IdleClick
  /\ UNCHANGED <<sessionVars, others, resultFiles, pdbStructure, parsedByFile, datMutations, selectedMutation,
                 heatmap, sel>>

(***************************************************************************)
(* The same steps of the handler of an earlier click, which runs on while  *)
(* the handlers of later clicks run.                                       *)
(***************************************************************************)
\* getFile resolves (lines 239-244)
EarlierFetched(k) ==
  /\ others[k].pc = "fetch"
  /\ stage' = [stage EXCEPT !.comps = <<>>]
  /\ others' = [Detached(others) EXCEPT
                  ![k].pc = "load",
                  ![k].log = others[k].log \o <<"fetched", "removed", "loadFile">>]
  /\ click' = [click EXCEPT !.comp = 0]
  /\ toasts' = <<>>
  /\ requests' = <<>>
  /\ returned' = <<>>
  /\ UNCHANGED <<sessionVars, resultFiles, pdbStructure, parsedByFile, datMutations,
                 selectedMutation, heatmap, loading, sel>>

\* getFile or loadFile rejects: the catch block (lines 321-325)
EarlierFailed(k) ==
  /\ others[k].pc \in {"fetch", "load"}
  /\ loading' = FALSE
  /\ toasts' = <<Toast("error", "Could not load PDB for",
                       others[k].target, <<>>, <<>>, <<>>)>>
  /\ returned' = <<[others[k] EXCEPT !.pc = "idle",
                                     !.log = Append(others[k].log, "error")]>>
  /\ others' = RemoveAt(others, k)
  /\ requests' = <<>>
  /\ UNCHANGED <<sessionVars, resultFiles, pdbStructure, parsedByFile, datMutations,
                 selectedMutation, heatmap, stage, click, sel>>

\* loadFile resolves with a component (lines 244-253)
EarlierLoaded(k) ==
  /\ others[k].pc = "load"
  /\ stage' = [stage EXCEPT !.comps =
                 Append(stage.comps, [file |-> others[k].target, reprs |-> <<Cartoon>>])]
  /\ others' = [others EXCEPT
                  ![k].pc = "settle",
                  ![k].comp = Len(stage.comps) + 1,
                  ![k].structure = normalizeChainNames(pdbStructure),
                  ![k].log = others[k].log \o <<"loaded", "normalized", "cartoon">>]
  /\ toasts' = <<>>
  /\ requests' = <<>>
  /\ returned' = <<>>
  /\ UNCHANGED <<sessionVars, resultFiles, pdbStructure, parsedByFile, datMutations,
                 selectedMutation, heatmap, loading, click, sel>>

\* the 60 ms timer fires (lines 255-319)
EarlierLocate(k) ==
  /\ others[k].pc = "settle"
  /\ LET h == others[k]
         residues == ResInfoOf(h.structure)
         candidates == FindCandidates(residues, h.posFromName, h.mutantThree,
                                      h.resno[1])
         located == [h EXCEPT !.pc = "idle", !.residues = residues,
                              !.candidates = candidates]
     IN IF candidates = <<>>
        THEN /\ toasts' = <<Toast("warning", "Could not locate the mutated residue in",
                                  h.target, h.posFromName, h.mutantThree, <<>>)>>
             /\ returned' = <<[located EXCEPT
                                 !.log = h.log \o <<"enumerated", "warning">>]>>
             /\ requests' = <<>>
             /\ UNCHANGED stage
        ELSE LET chosen == Choose(candidates)
                 sele == selectionOf(chosen)
             IN /\ stage' = [stage EXCEPT !.comps =
                               AddRepresentation(stage.comps, h.comp,
                                                 BallAndStick(sele))]
                /\ requests' = <<"zoom", "scroll">>
                /\ toasts' = <<Toast("info", "Loaded", h.target,
                                     <<chosen.resno>>, chosen.resname, sele.chain)>>
                /\ returned' = <<[located EXCEPT
                                    !.chosen = <<chosen>>,
                                    !.log = h.log \o
                                       <<"enumerated", "located", "highlight",
                                         "zoom", "info", "scroll">>]>>
  /\ loading' = FALSE
  /\ others' = RemoveAt(others, k)
  /\ UNCHANGED <<sessionVars, resultFiles, pdbStructure, parsedByFile, datMutations,
                 selectedMutation, heatmap, click, sel>>

(***************************************************************************)
(* The specification of a loaded session: the user selects tables, asks    *)
(* for the combined heatmap and clicks cells of the displayed heatmap.     *)
(* Selections and the click are interleaved freely; one click handler and  *)
(* one onSelectMutation call are in flight at a time.                      *)
(***************************************************************************)
Next ==
  \/ \E m \in Range(datMutations) \cup {KeyScan} : SelectStart(m)
  \/ SelectFetched
  \/ SelectPlot
  \/ ShowAllHeatmap
  \/ /\ heatmap # <<>>
     /\ \E y \in Range(heatmap[1].y), x \in Range(heatmap[1].x) : ClickStart(y, x)
  \/ ClickFetched
  \/ ClickFetchFailed
  \/ ClickLoaded
  \/ ClickLoadFailed
  \/ ClickLocate

Spec == Init /\ [][Next]_vars

(***************************************************************************)
(* The sessions of a user who lets the application settle before acting    *)
(* again: over every file list for the resolver, over every structure for  *)
(* the locator.                                                            *)
(***************************************************************************)
Settled == click.pc = "idle" /\ sel.pc = "idle"

NextSettled ==
  \/ /\ Settled
     /\ \E m \in Range(datMutations) \cup {KeyScan} : SelectStart(m)
  \/ SelectFetched
  \/ SelectPlot
  \/ Settled /\ ShowAllHeatmap
  \/ /\ Settled
     /\ heatmap # <<>>
     /\ \E y \in Range(heatmap[1].y), x \in Range(heatmap[1].x) : ClickStart(y, x)
  \/ ClickFetched
  \/ ClickFetchFailed
  \/ ClickLoaded
  \/ ClickLoadFailed
  \/ ClickLocate

InitResolve == \E files \in FileLists : SessionInit(files, Docs, Structure60)

SpecResolve == InitResolve /\ [][NextSettled]_vars

InitLocate ==
  \E files \in FileLists1, s \in Structures : SessionInit(files, Docs, s)

SpecLocate == InitLocate /\ [][NextSettled]_vars

(***************************************************************************)
(* The sessions of a user who clicks cells of the combined heatmap without *)
(* waiting for the load of the click before.                               *)
(***************************************************************************)
NextOverlap ==
  \/ /\ heatmap # <<>>
     /\ \E y \in Range(heatmap[1].y), x \in Range(heatmap[1].x) : ClickStart(y, x)
  \/ /\ heatmap # <<>>
     /\ \E y \in Range(heatmap[1].y), x \in Range(heatmap[1].x) : ClickAgain(y, x)
  \/ ClickFetched
  \/ ClickFetchFailed
  \/ ClickLoaded
  \/ ClickLoadFailed
  \/ ClickLocate
  \/ \E k \in DOMAIN others : EarlierFetched(k)
  \/ \E k \in DOMAIN others : EarlierFailed(k)
  \/ \E k \in DOMAIN others : EarlierLoaded(k)
  \/ \E k \in DOMAIN others : EarlierLocate(k)

SpecOverlap == Init /\ [][NextOverlap]_vars

(***************************************************************************)
(* The sessions of a job that reports two energy tables of any content and *)
(* no structure: the user selects tables and asks for the combined         *)
(* heatmap.                                                                *)
(***************************************************************************)
InitMatrix ==
  \E docs \in [TableFiles -> DocPool] :
    SessionInit(<<FileGlu60c, FileXyz7c>>, docs, <<>>)

NextMatrix ==
  \/ \E m \in Range(datMutations) \cup {KeyScan} : SelectStart(m)
  \/ SelectFetched
  \/ SelectPlot
  \/ ShowAllHeatmap

SpecMatrix == InitMatrix /\ [][NextMatrix]_vars

\* the same sessions over tables whose entries meet on cells
InitFill ==
  \E docs \in [TableFiles -> FillDocPool] :
    SessionInit(<<FileGlu60c, FileXyz7c>>, docs, <<>>)

SpecFill == InitFill /\ [][NextMatrix]_vars

(***************************************************************************)
(* Properties of the PDB resolver.                                         *)
(***************************************************************************)
\* a step in which the click handler starts: it gets to its first await or
\* returns at once
ClickStep == click.pc = "idle" /\ (click'.pc # "idle" \/ returned' # <<>>)

\* the locals of the handler at the end of such a step
StartedClick == IF click'.pc # "idle" THEN click' ELSE returned'[1]

\* file encodes clicked residue n, wild-type letter w and mutant letter m
Encodes(file, n, w, m) ==
  ToLowerCase(file) = JoinedProc \o NumToStr(n) \o <<"_", w, "2", m>> \o DotPdb

EncodesAnyWild(file, n, m) == \E w \in LowerSet : Encodes(file, n, w, m)

\* the first file of the list that encodes (n, any wild-type letter, m)
FirstEncoding(files, n, m) ==
  files[CHOOSE i \in DOMAIN files :
          /\ EncodesAnyWild(files[i], n, m)
          /\ \A j \in DOMAIN files : EncodesAnyWild(files[j], n, m) => i <= j]

\* a click on a residue number and a mutant letter has just been resolved
LetterClick ==
  /\ ClickStep
  /\ StartedClick.resno # <<>>
  /\ Len(StartedClick.mutant) = 1
  /\ StartedClick.mutant[1] \in LowerSet

\* the residue number and the mutant letter of that click
ClickedN == StartedClick.resno[1]
ClickedM == StartedClick.mutant[1]

\* C1: strict tier priority. For a click (n, m) while the selected table key
\* decodes to the wild-type letter w, when resultFiles holds a file encoding
\* (n, w, m) the resolver returns a file encoding (n, w, m), whatever files
\* encoding (n, w', m) are present and wherever they are in the list.
C1_StrictPriority ==
  [][( /\ LetterClick
       /\ selectedMutation # AllMutations
       /\ wildOneOf(selectedMutation) # <<>>
       /\ \E f \in Range(resultFiles) :
            Encodes(f, ClickedN, wildOneOf(selectedMutation)[1], ClickedM) )
     => /\ StartedClick.target # <<>>
        /\ Encodes(StartedClick.target, ClickedN,
                   wildOneOf(selectedMutation)[1], ClickedM)]_vars

\* the handler waits for joined_proc_60_e2a.pdb, resolved under the key
\* inter_ener_glu60c although joined_proc_60_D2A.pdb comes first in the list
C1_Witness ==
  /\ click.pc = "fetch"
  /\ selectedMutation = KeyGlu60c
  /\ click.target = File60E2A
  /\ click.log[1] = "strict"
  /\ \E i, j \in DOMAIN resultFiles :
        i < j /\ resultFiles[i] = File60D2A /\ resultFiles[j] = File60E2A

\* C2: relaxed fallback. Outside the combined view, when the strict tier
\* yields nothing (the key decodes to no wild-type letter, or no file encodes
\* exactly (n, w, m)) and some file encodes (n, any wild-type letter, m), the
\* resolver returns the first such file in resultFiles order.
C2_RelaxedFallback ==
  [][( /\ LetterClick
       /\ selectedMutation # AllMutations
       /\ \/ wildOneOf(selectedMutation) = <<>>
          \/ \A f \in Range(resultFiles) :
               ~Encodes(f, ClickedN, wildOneOf(selectedMutation)[1], ClickedM)
       /\ \E f \in Range(resultFiles) : EncodesAnyWild(f, ClickedN, ClickedM) )
     => StartedClick.target = FirstEncoding(resultFiles, ClickedN, ClickedM)]_vars

\* the handler waits for joined_proc_60_D2A.pdb, resolved by the relaxed tier
\* under the key inter_ener_glu60c: no file encodes (60, e, a)
C2_Witness ==
  /\ click.pc = "fetch"
  /\ selectedMutation = KeyGlu60c
  /\ click.target = File60D2A
  /\ click.log[1] = "relaxed"
  /\ \A f \in Range(resultFiles) : f # File60E2A

\* C3: in the combined view the resolver makes the relaxed search only: for
\* a click (n, m) it returns the first file of resultFiles encoding (n, any
\* wild-type letter, m), not-found when there is none, whatever keys the
\* cache holds.
C3_CombinedRelaxedOnly ==
  [][( /\ LetterClick
       /\ selectedMutation = AllMutations )
     => /\ StartedClick.log # <<"warning">> => StartedClick.log[1] = "relaxed"
        /\ StartedClick.target =
             IF \E f \in Range(resultFiles) : EncodesAnyWild(f, ClickedN, ClickedM)
             THEN FirstEncoding(resultFiles, ClickedN, ClickedM) ELSE <<>>]_vars

\* in the combined view, with the key inter_ener_glu60c in the cache, the
\* handler waits for joined_proc_60_D2A.pdb, listed before
\* joined_proc_60_e2a.pdb
C3_Witness ==
  /\ click.pc = "fetch"
  /\ selectedMutation = AllMutations
  /\ KeyGlu60c \in Range(CacheKeys(parsedByFile))
  /\ click.target = File60D2A
  /\ \E i, j \in DOMAIN resultFiles :
        i < j /\ resultFiles[i] = File60D2A /\ resultFiles[j] = File60E2A

\* no file of the list matches the expression of either tier
NoTierMatches(selected, files, n, mutant) ==
  \A f \in Range(files) :
    /\ ~RegExpTest(relaxedRx(n, mutant), f)
    /\ (selected # AllMutations /\ wildOneOf(selected) # <<>>)
         => ~RegExpTest(strictRx(n, wildOneOf(selected), mutant), f)

\* C4: when no file of resultFiles matches either tier for a click (n, m),
\* the handler raises a warning naming residue n and mutant m and stops: no
\* file is fetched, the viewer keeps its structures and the loading indicator
\* is not set.
C4_NotFoundStops ==
  [][( /\ ClickStep
       /\ StartedClick.resno # <<>>
       /\ NoTierMatches(selectedMutation, resultFiles, StartedClick.resno[1],
                        StartedClick.mutant) )
     => /\ toasts' = <<Toast("warning", "No PDB found for residue", <<>>,
                            StartedClick.resno,
                            ToUpperCase(StartedClick.mutant), <<>>)>>
        /\ click' = IdleClick
        /\ "getFile" \notin Range(StartedClick.log)
        /\ stage' = stage
        /\ loading' = loading
        /\ ~loading']_vars

\* the handler has just returned with the warning for residue 160 and
\* mutant D, and the viewer still holds a structure
C4_Witness ==
  /\ returned # <<>>
  /\ returned[1].resno = <<160>>
  /\ returned[1].mutant = <<"d">>
  /\ returned[1].target = <<>>
  /\ toasts # <<>>
  /\ toasts[1].level = "warning"
  /\ toasts[1].resno = <<160>>
  /\ toasts[1].name = <<"D">>
  /\ stage.comps # <<>>
  /\ ~loading

(***************************************************************************)
(* Properties of the residue locator.                                      *)
(***************************************************************************)
\* the handler returned in the last step after it enumerated the residues
Located == returned # <<>> /\ "enumerated" \in Range(returned[1].log)

\* the residues of the list with the number of the optional hint
NumberTier(residues, hint) ==
  LET Keep(r) == hint # <<>> /\ r.resno = hint[1] IN SelectSeq(residues, Keep)

\* the residues of the list with the name of the optional hint
NameTier(residues, hint) ==
  LET Keep(r) == hint # <<>> /\ r.resname = hint IN SelectSeq(residues, Keep)

\* the result of the first tier that yields a residue
FirstTier(residues, posFromName, mutantThree, clicked) ==
  IF NumberTier(residues, posFromName) # <<>>
  THEN NumberTier(residues, posFromName)
  ELSE IF NameTier(residues, mutantThree) # <<>>
  THEN NameTier(residues, mutantThree)
  ELSE NumberTier(residues, clicked)

InProc(r) == ToUpperCase(r.chainname) = PROC

C7_ClickedNumberFallback ==
  ( /\ Located
    /\ returned[1].posFromName = <<>>
    /\ returned[1].mutantThree = <<>>
    /\ \E i \in DOMAIN pdbStructure :
          pdbStructure[i].resno = returned[1].resno[1] )
  => /\ returned[1].chosen # <<>>
     /\ returned[1].chosen[1].resno = returned[1].resno[1]
     /\ toasts # <<>> /\ toasts[1].level = "info"
     /\ requests = <<"zoom", "scroll">>

\* the locator chose residue 60 in joined_proc_60_e2.pdb, a name that gives
\* no hint, in a structure that holds another residue as well
C7_Witness ==
  /\ Located
  /\ returned[1].target = File60E2
  /\ returned[1].posFromName = <<>>
  /\ returned[1].mutantThree = <<>>
  /\ returned[1].chosen # <<>>
  /\ returned[1].chosen[1].resno = 60
  /\ \E i \in DOMAIN pdbStructure : pdbStructure[i].resno # 60

\* the step of the handler after the 60 ms wait
LocateStep == click.pc = "settle" /\ click'.pc = "idle"

\* no residue of the structure is in any tier
NoTierYields(c) ==
  LET residues == ResInfoOf(c.structure)
  IN /\ NumberTier(residues, c.posFromName) = <<>>
     /\ NameTier(residues, c.mutantThree) = <<>>
     /\ NumberTier(residues, c.resno) = <<>>

\* the ball+stick representations in the viewer
Highlights(st) ==
  UNION {{<<i, j>> : j \in {k \in DOMAIN st.comps[i].reprs :
                                st.comps[i].reprs[k].type = "ball+stick"}} :
         i \in DOMAIN st.comps}

Line60E2A ==
  <<"P","R","O","C","_","6","0","_","E","2","A"," ","-","3",".","4","5">>

\* the steps of a click that ends with the highlight, in order
HappyLog ==
  <<"strict", "getFile", "fetched", "removed", "loadFile", "loaded",
    "normalized", "cartoon", "enumerated", "located", "highlight", "zoom",
    "info", "scroll">>

IsPrefix(s, t) == Len(s) <= Len(t) /\ s = SubSeq(t, 1, Len(s))

\* the table inter_ener_glu60c is parsed from a document with the line and
\* selected, and joined_proc_60_e2a.pdb is in resultFiles
Scenario ==
  /\ \E i \in DOMAIN SplitLines(DocGlu60c) : SplitLines(DocGlu60c)[i] = Line60E2A
  /\ CacheGet(parsedByFile, KeyGlu60c) = <<parseFullDat(DocGlu60c, FileGlu60c)>>
  /\ selectedMutation = KeyGlu60c
  /\ File60E2A \in Range(resultFiles)

\* the locals of a click on cell (60, A) resolved by the strict tier
ScenarioClick(c) ==
  /\ c.resno = <<60>>
  /\ c.mutant = <<"a">>
  /\ c.target = File60E2A
  /\ c.log # <<>>
  /\ c.log[1] = "strict"

\* the locals of the handler after a step
ClickAfter == IF click'.pc = "idle" THEN returned'[1] ELSE click'

NoWarningOrError(ts) ==
  \A i \in DOMAIN ts : ts[i].level \notin {"warning", "error"}

\* C9: end-to-end click. In the scenario a click on cell (60, A) resolves
\* to joined_proc_60_e2a.pdb by the strict tier; the handler then loads the
\* file, locates residue 60 and adds the highlight, in that order, and
\* raises no warning or error on the way, unless the fetch or the load of
\* the file is rejected.
C9_EndToEnd ==
  [][/\ ( /\ ClickStep
          /\ Scenario
          /\ StartedClick.resno = <<60>>
          /\ StartedClick.mutant = <<"a">> )
        => /\ click'.pc = "fetch"
           /\ ScenarioClick(click')
           /\ click'.log = <<"strict", "getFile">>
           /\ NoWarningOrError(toasts')
     /\ ( /\ ScenarioClick(click)
          /\ click' # click
          /\ \E i \in DOMAIN pdbStructure : pdbStructure[i].resno = 60 )
        => \/ /\ click.pc \in {"fetch", "load"}
              /\ ClickAfter.log = Append(click.log, "error")
           \/ /\ IsPrefix(click.log, ClickAfter.log)
              /\ Len(click.log) < Len(ClickAfter.log)
              /\ IsPrefix(ClickAfter.log, HappyLog)
              /\ NoWarningOrError(toasts')
              /\ click'.pc = "idle"
                   => /\ ClickAfter.log = HappyLog
                      /\ ClickAfter.chosen # <<>>
                      /\ ClickAfter.chosen[1].resno = 60
                      /\ stage'.comps =
                           <<[file |-> File60E2A,
                              reprs |-> <<Cartoon,
                                          BallAndStick(
                                            selectionOf(ClickAfter.chosen[1]))>>]>>
    ]_vars

\* the handler has just returned from the click of the scenario with the
\* highlight on residue 60 of joined_proc_60_e2a.pdb
C9_Witness ==
  /\ Scenario
  /\ returned # <<>>
  /\ ScenarioClick(returned[1])
  /\ returned[1].log = HappyLog
  /\ Len(stage.comps) = 1
  /\ stage.comps[1].file = File60E2A
  /\ Highlights(stage) # {}
  /\ NoWarningOrError(toasts)

(***************************************************************************)
(* Properties of the energy matrix.                                        *)
(***************************************************************************)
PairwiseDistinct(s) == \A i, j \in DOMAIN s : i # j => s[i] # s[j]

\* one grid row per row label, one cell per column label in every row, and
\* no label twice
WellFormed(matrix) ==
  /\ Len(matrix.z) = Len(matrix.y)
  /\ \A i \in DOMAIN matrix.z : Len(matrix.z[i]) = Len(matrix.x)
  /\ PairwiseDistinct(matrix.y)
  /\ PairwiseDistinct(matrix.x)

\* C10: every matrix built by the single-table builder (pending in
\* onSelectMutation or displayed) or by the combined builder has one grid
\* row per row label and one cell per column label in every row, with
\* pairwise distinct row labels and pairwise distinct column labels.
C10_MatrixWellFormed ==
  /\ heatmap # <<>> => WellFormed(heatmap[1])
  /\ sel.data # <<>> => WellFormed(sel.data[1])
  /\ \A i \in DOMAIN parsedByFile : WellFormed(SingleMatrix(parsedByFile[i].table))
  /\ WellFormed(CombinedMatrix(CacheValues(parsedByFile)))

\* the combined matrix on display has two rows and two columns and was
\* built from four entries, and the matrix of a table whose two entries
\* share their row label waits for its timer
C10_Witness ==
  /\ selectedMutation # AllMutations
  /\ heatmap # <<>>
  /\ heatmap[1] = CombinedMatrix(CacheValues(parsedByFile))
  /\ Len(heatmap[1].y) = 2
  /\ Len(heatmap[1].x) = 2
  /\ Len(FlatEntries(CacheValues(parsedByFile))) = 4
  /\ sel.pc = "timer"
  /\ Len(sel.cached[1].entries) = 2
  /\ Len(sel.data[1].y) = 1

\* the entries a matrix on display or pending was built from: those of the
\* whole cache for the combined matrix, those of one table otherwise
Builds ==
  {[matrix |-> CombinedMatrix(CacheValues(parsedByFile)),
    entries |-> FlatEntries(CacheValues(parsedByFile))]}
  \cup {[matrix |-> SingleMatrix(parsedByFile[i].table),
         entries |-> parsedByFile[i].table.entries] : i \in DOMAIN parsedByFile}

\* every matrix on display or pending is one of these
BuiltOnly ==
  /\ heatmap # <<>> => \E b \in Builds : b.matrix = heatmap[1]
  /\ sel.data # <<>> => \E b \in Builds : b.matrix = sel.data[1]

\* the positions of the entries that target the cell of row r and column m
Targets(entries, r, m) ==
  {k \in DOMAIN entries : entries[k].residue = r /\ entries[k].mutant = m}

\* C11: missing cells are distinguishable from zero. In a built matrix the
\* cell (R, M) holds NaN if and only if no input entry has residue R and
\* mutant M, and a cell targeted by an entry with energy 0 alone holds 0.
C11_MissingIsNotZero ==
  /\ BuiltOnly
  /\ \A b \in Builds :
       \A i \in DOMAIN b.matrix.y, j \in DOMAIN b.matrix.x :
         LET hits == Targets(b.entries, b.matrix.y[i], b.matrix.x[j])
         IN /\ b.matrix.z[i][j] = NaN <=> hits = {}
            /\ (hits # {} /\ \A k \in hits : b.entries[k].energy = 0)
                 => b.matrix.z[i][j] = <<0>>

\* the heatmap on display has a missing cell and a cell holding 0
C11_Witness ==
  /\ heatmap # <<>>
  /\ \E i \in DOMAIN heatmap[1].y, j \in DOMAIN heatmap[1].x :
        heatmap[1].z[i][j] = NaN
  /\ \E i \in DOMAIN heatmap[1].y, j \in DOMAIN heatmap[1].x :
        heatmap[1].z[i][j] = <<0>>
  /\ sel.pc = "idle"
  /\ selectedMutation = KeyXyz7c

\* the greatest element of a non-empty set of numbers
Last(S) == CHOOSE k \in S : \A l \in S : l <= k

\* C12: last write wins. When several entries target one cell, within a
\* table or across the tables taken in cache order, the cell of the built
\* matrix holds the energy of the last of them in processing order.
C12_LastWriteWins ==
  /\ BuiltOnly
  /\ \A b \in Builds :
       \A i \in DOMAIN b.matrix.y, j \in DOMAIN b.matrix.x :
         LET hits == Targets(b.entries, b.matrix.y[i], b.matrix.x[j])
         IN hits # {} => b.matrix.z[i][j] = <<b.entries[Last(hits)].energy>>

\* the combined heatmap is on display, and one of its cells is targeted by
\* an entry of the first table and by an entry of the second, with another
\* energy, which the cell holds; the matrix that waits for its timer has
\* one cell, which holds the second of the two energies of its table
C12_Witness ==
  /\ heatmap # <<>>
  /\ Len(parsedByFile) = 2
  /\ heatmap[1] = CombinedMatrix(CacheValues(parsedByFile))
  /\ \E a \in DOMAIN parsedByFile[1].table.entries,
        b \in DOMAIN parsedByFile[2].table.entries :
        LET ea == parsedByFile[1].table.entries[a]
            eb == parsedByFile[2].table.entries[b]
        IN /\ ea.residue = eb.residue
           /\ ea.mutant = eb.mutant
           /\ ea.energy # eb.energy
           /\ b = Len(parsedByFile[2].table.entries)
           /\ heatmap[1].z[IndexOf(heatmap[1].y, eb.residue)]
                          [IndexOf(heatmap[1].x, eb.mutant)] = <<eb.energy>>
  /\ sel.pc = "timer"
  /\ Len(sel.cached[1].entries) = 2
  /\ sel.cached[1].entries[1].residue = sel.cached[1].entries[2].residue
  /\ sel.cached[1].entries[1].mutant = sel.cached[1].entries[2].mutant
  /\ sel.cached[1].entries[1].energy # sel.cached[1].entries[2].energy
  /\ sel.data[1].z = << << <<sel.cached[1].entries[2].energy>> >> >>

\* the position of the first occurrence of v in s
FirstAt(s, v) == CHOOSE k \in DOMAIN s : s[k] = v /\ \A l \in DOMAIN s : s[l] = v => k <= l

\* labels are the distinct elements of seen, in first-occurrence order
FirstSeenOrder(labels, seen) ==
  /\ Range(labels) = Range(seen)
  /\ \A i, j \in DOMAIN labels :
       i < j => FirstAt(seen, labels[i]) < FirstAt(seen, labels[j])

\* C13: axis order is first-seen order. The row labels of a built matrix
\* are the distinct residues in the order of their first occurrence among
\* the input entries (tables in cache order, entries in table order) and
\* the column labels the distinct mutants in theirs, whatever the numbers
\* the labels spell.
C13_FirstSeenAxes ==
  /\ BuiltOnly
  /\ \A b \in Builds :
       /\ FirstSeenOrder(b.matrix.y,
                         [k \in DOMAIN b.entries |-> b.entries[k].residue])
       /\ FirstSeenOrder(b.matrix.x,
                         [k \in DOMAIN b.entries |-> b.entries[k].mutant])

\* the heatmap on display has the rows 60 and 7 in this order, and the
\* matrix that waits for its timer has them in the other order
C13_Witness ==
  /\ heatmap # <<>>
  /\ heatmap[1].y = << <<"6","0">>, <<"7">> >>
  /\ sel.pc = "timer"
  /\ sel.data[1].y = << <<"7">>, <<"6","0">> >>


(***************************************************************************)
(* Documents for the parser: one table file, whose text is drawn.          *)
(***************************************************************************)
\* the lines a drawn document is made of: a data line, a blank line, the
\* three banners (each with a token that would match), an identifier in
\* lower case, a line of another shape, an identifier with two runs of
\* digits, a token in the middle of a line, a lower-case identifier that
\* ends with a digit, and an identifier without digits
ParsePool ==
  { <<"P","R","O","C","_","6","0","_","E","2","A"," ","-","3",".","4","5">>,
    <<" ","\t">>,
    <<" ","G","E","N","E","R","A","T","E","D"," ","1">>,
    <<"S","M","E","H","E","C","_","X"," ","2">>,
    <<"J","O","I","N","I","N","G"," ","3"," ","4">>,
    <<"p","r","o","c"," ","5">>,
    <<"T","O","T","A","L",":"," ","-","3">>,
    <<"A","1","B","2","2"," ","1",".","5">>,
    <<"s","e","e"," ","G","L","U","_","7","C","\t","2"," ","o","k">>,
    <<"x","1"," ","4">>,
    <<"W","T"," ","-","0",".","5">> }

\* the documents of at most MaxEntries of these lines
ParseDocPool == {JoinLines(ls) : ls \in UNION {[1..k -> ParsePool] : k \in 0..MaxEntries}}

\* a completed job with one table file
InitParse ==
  \E doc \in ParseDocPool :
    SessionInit(<<FileGlu60c>>, [f \in TableFiles |-> doc], <<>>)

SpecParse == InitParse /\ [][NextMatrix]_vars

(***************************************************************************)
(* C14                                                                     *)
(***************************************************************************)
\* [A-Za-z0-9_]
WordClass == LowerSet \cup UpperSet \cup DigitSet \cup {"_"}

\* the line holds, somewhere, an identifier of the class cls, then
\* whitespace, then a signed decimal number
HasToken(line, cls) ==
  \E i \in DOMAIN line : \E j \in i..Len(line) : \E k \in (j + 1)..Len(line) :
    /\ \A p \in i..j : line[p] \in cls
    /\ \A p \in (j + 1)..k : IsSpace(line[p])
    /\ k + 1 <= Len(line)
    /\ \/ IsDigit(line[k + 1])
       \/ line[k + 1] = "-" /\ k + 2 <= Len(line) /\ IsDigit(line[k + 2])

\* the trimmed lines of a document
TrimmedLines(doc) ==
  LET ls == SplitLines(doc) IN [i \in DOMAIN ls |-> Trim(ls[i])]

IsBanner(l) ==
  StartsWith(l, GENERATED) \/ StartsWith(l, SMEHEC) \/ StartsWith(l, JOINING)

\* the lines of a document that yield an entry, in line order, when the
\* identifier is of the class cls
TokenLines(doc, cls) ==
  LET IsTokenLine(l) == l # <<>> /\ ~IsBanner(l) /\ HasToken(l, cls)
  IN SelectSeq(TrimmedLines(doc), IsTokenLine)

\* the table files of the session and the table each is cached as
LoadedTables ==
  UNION {{[file |-> resultFiles[i], table |-> parsedByFile[k].table] :
            k \in {j \in DOMAIN parsedByFile :
                     parsedByFile[j].key = KeyOfFile(resultFiles[i])}} :
         i \in {k \in DOMAIN resultFiles : HasSuffixDat(resultFiles[k])}}

\* the entries follow, one to one and in line order, the lines of the class
EntriesFollow(cls) ==
  \A t \in LoadedTables :
    LET lines == TokenLines(servedText[t.file], cls)
    IN /\ Len(t.table.entries) = Len(lines)
       /\ \A k \in DOMAIN lines :
            t.table.entries[k] = ParseLines(<<lines[k]>>)[1]

\* C14: the table parsed from a document holds, in line order, exactly one
\* entry for each trimmed, non-blank line that starts with none of
\* GENERATED, SMEHEC and JOINING and holds a token made of an identifier of
\* upper-case letters, digits and underscores, whitespace and a signed
\* decimal number; no other line yields an entry.  The parser is a total
\* function of the text: no line makes it raise.
C14_OneEntryPerTokenLine == EntriesFollow(IdClass)

\* C14 as stated, with an identifier of letters of either case, digits and
\* underscores
C14_AnyCaseIdentifier ==
  \A t \in LoadedTables :
    Len(t.table.entries) = Len(TokenLines(servedText[t.file], WordClass))

\* a document of two lines was parsed: the one with the lower-case
\* identifier yielded nothing, the data line yielded the only entry
C14_Witness ==
  /\ servedText[FileGlu60c] = JoinLines(<<<<"p","r","o","c"," ","5">>, <<"P","R","O","C","_","6","0","_","E","2","A"," ","-","3",".","4","5">>>>)
  /\ \E t \in LoadedTables :
       /\ t.file = FileGlu60c
       /\ t.table.entries = <<[residue |-> <<"6","0">>, mutant |-> "A", energy |-> 0 - 345]>>
  /\ heatmap # <<>>


(***************************************************************************)
(* C15                                                                     *)
(***************************************************************************)
\* C15: the discard rule is idempotent: the lines kept of a document, put
\* together as a document again, are all kept, and parsing them yields the
\* entries that parsing the document yielded.
C15_DiscardIdempotent ==
  \A t \in LoadedTables :
    LET kept == DataLines(servedText[t.file])
    IN /\ DataLines(JoinLines(kept)) = kept
       /\ parseFullDat(JoinLines(kept), t.file) = t.table

\* a document with a padded banner and a data line was parsed: one line
\* was kept of the two
C15_Witness ==
  /\ servedText[FileGlu60c] = JoinLines(<<<<" ","G","E","N","E","R","A","T","E","D"," ","1">>, <<"P","R","O","C","_","6","0","_","E","2","A"," ","-","3",".","4","5">>>>)
  /\ DataLines(servedText[FileGlu60c]) = <<<<"P","R","O","C","_","6","0","_","E","2","A"," ","-","3",".","4","5">>>>
  /\ \E t \in LoadedTables : t.file = FileGlu60c /\ Len(t.table.entries) = 1


(***************************************************************************)
(* C16                                                                     *)
(***************************************************************************)
\* r is the first run of digits of the identifier, as long as it goes
IsFirstDigitRun(id, r) ==
  \E p \in DOMAIN id : \E q \in p..Len(id) :
    /\ r = SubSeq(id, p, q)
    /\ \A j \in 1..(p - 1) : ~IsDigit(id[j])
    /\ \A j \in p..q : IsDigit(id[j])
    /\ q = Len(id) \/ ~IsDigit(id[q + 1])

\* C16: the residue of an entry is the first contiguous run of digits of
\* the matched identifier (the first one when there are several), or 'UNK'
\* when the identifier has no digit; its mutant is the last character of the
\* identifier when that is an upper-case letter, and '?' otherwise.
C16_ResidueAndMutant ==
  \A t \in LoadedTables :
    LET lines == TokenLines(servedText[t.file], IdClass)
    IN /\ Len(t.table.entries) = Len(lines)
       /\ \A k \in DOMAIN lines :
            LET id == LineMatch(lines[k])[1].id
                e == t.table.entries[k]
            IN /\ IF \E j \in DOMAIN id : IsDigit(id[j])
                  THEN IsFirstDigitRun(id, e.residue)
                  ELSE e.residue = UNK
               /\ IF IsUpper(id[Len(id)])
                  THEN e.mutant = id[Len(id)]
                  ELSE e.mutant = "?"

\* an identifier with two runs of digits and no final letter, and one
\* without digits, were parsed
C16_Witness ==
  /\ servedText[FileGlu60c] = JoinLines(<<<<"A","1","B","2","2"," ","1",".","5">>, <<"W","T"," ","-","0",".","5">>>>)
  /\ \E t \in LoadedTables :
       /\ t.file = FileGlu60c
       /\ t.table.entries =
            <<[residue |-> <<"1">>, mutant |-> "?", energy |-> 150],
              [residue |-> UNK, mutant |-> "T", energy |-> 0 - 50]>>


(***************************************************************************)
(* C17                                                                     *)
(***************************************************************************)
\* every line of the document is blank or a banner
NoiseOnly(doc) ==
  \A i \in DOMAIN TrimmedLines(doc) :
    TrimmedLines(doc)[i] = <<>> \/ IsBanner(TrimmedLines(doc)[i])

\* the matrix with no row and no column
EmptyMatrix == [x |-> <<>>, y |-> <<>>, z |-> <<>>]

\* C17: an empty document, or one of blank lines and banners only, parses
\* to a table with no entries; selecting that table raises no error, builds
\* the matrix with no rows and no columns and hands it to the chart.
C17_EmptyTable ==
  \A t \in LoadedTables :
    NoiseOnly(servedText[t.file]) =>
      /\ t.table.entries = <<>>
      /\ selectedMutation = KeyOfFile(t.file) =>
           \A i \in DOMAIN toasts : toasts[i].level # "error"
      /\ sel.pc = "timer" /\ sel.file = t.file => sel.data = <<EmptyMatrix>>
      /\ selectedMutation = KeyOfFile(t.file) /\ sel.pc = "idle" =>
           heatmap = <<EmptyMatrix>>

\* the table of a document of a banner and a blank line was selected, and
\* the chart was handed its matrix
C17_Witness ==
  /\ servedText[FileGlu60c] = JoinLines(<<<<" ","G","E","N","E","R","A","T","E","D"," ","1">>, <<" ","\t">>>>)
  /\ CacheGet(parsedByFile, KeyGlu60c) # <<>>
  /\ selectedMutation = KeyGlu60c
  /\ sel.pc = "idle"
  /\ heatmap = <<EmptyMatrix>>


(***************************************************************************)
(* Starting a session: onGoClick and waitForResults of                     *)
(* PdbInputFormComponent, loadExistingJob, loadAllPdbsFromBackend and      *)
(* getFile of GlobalService.                                               *)
(***************************************************************************)
\* most sessions a user starts (jobs submitted and archives chosen)
MaxSessions == 2
\* most "pending" answers one polling loop gets
MaxPolls == 2

DotZip == <<".","z","i","p">>

\* the file lists a job reports and an archive holds: a table with a
\* structure, another table with another structure, two structures alone
SessionFileLists ==
  { <<FileGlu60c, File60E2A>>, <<FileXyz7c, File60D2A>>, <<File60E2A, File60D2A>> }

\* what the file input of loadExistingJob hands over: no file, a file that
\* is no archive, an archive
ArchiveInputs ==
  {<<>>, <<[name |-> <<"n","o","t","e","s",".","t","x","t">>, files |-> <<>>]>>}
  \cup {<<[name |-> <<"r","e","s","u","l","t","s",".","z","i","p">>, files |-> fs]>> : fs \in SessionFileLists}

\* getFile (lines 552-560): the source a file is read from, and whether the
\* read succeeds; an archive without the file makes it throw
getFile(jobId, filename) ==
  IF zipMode /\ zipData # <<>>
  THEN [file |-> filename, source |-> "archive",
        ok |-> \E k \in DOMAIN zipData[1].files : zipData[1].files[k] = filename]
  ELSE [file |-> filename, source |-> "remote", ok |-> TRUE]

\* the components the viewer holds after the reads of a list of structure
\* files: one cartoon for each file that was read
RECURSIVE LoadedComps(_)
LoadedComps(reads) ==
  IF reads = <<>> THEN <<>>
  ELSE (IF Head(reads).ok
        THEN <<[file |-> Head(reads).file, reprs |-> <<Cartoon>>]>> ELSE <<>>)
       \o LoadedComps(Tail(reads))

\* the toasts of the reads that threw
RECURSIVE FailedToLoad(_)
FailedToLoad(reads) ==
  IF reads = <<>> THEN <<>>
  ELSE (IF Head(reads).ok THEN <<>>
        ELSE <<Toast("error", "Failed to load", Head(reads).file, <<>>, <<>>, <<>>)>>)
       \o FailedToLoad(Tail(reads))

\* a submitted job: pc is "post" while postData is in flight, "rejected"
\* when it failed, "poll" while waitForResults runs, "completed" or "failed"
\* once the loop has stopped itself.  checks are the positions of the calls
\* of check in flight ("log", "status", "pdbs", "load", "dats"), timers the number of
\* armed timeouts, handle whether the timeout of timeoutHandle is armed,
\* pending the "pending" answers so far, scheduled the setTimeout calls so
\* far, files the reported list, reads the structure files the bulk load
\* is done with, fits its stage.autoView calls, cleared its
\* setLoading(false) calls and logFailed whether a fetch of the job log
\* has failed.
NewLoop(job) ==
  [job |-> job, pc |-> "post", checks |-> <<>>, timers |-> 0, handle |-> FALSE,
   pending |-> 0, scheduled |-> 0, files |-> <<>>, reads |-> <<>>,
   fits |-> 0, cleared |-> 0, logFailed |-> FALSE]

\* clearTimeout(timeoutHandle)
ClearTimeout(loop) ==
  [loop EXCEPT !.timers = IF loop.handle THEN loop.timers - 1 ELSE loop.timers,
               !.handle = FALSE]

\* the sessions begun so far, whatever became of them
Attempts == Len(polls) + archive.n

\* the variables no step of this part touches
clickVars == <<pdbStructure, servedText, returned, click, sel, others, refresh,
               exported>>

\* what the file input of onFileChange hands over: no file, a file that is
\* no structure file, a structure file
FileInputs ==
  {<<>>, <<[name |-> <<"n","o","t","e","s",".","t","x","t">>]>>,
   <<[name |-> <<"1","a","b","c">> \o DotPdb]>>}

\* what the user types into a text field of the form: nothing, a blank, a
\* chain name or a mutation
Texts == {<<>>, <<" ">>, <<"A">>}

\* onFileChange (lines 37-44): a structure file is kept, anything else is
\* answered with an alert and the file chosen before stays
FileChange(file) ==
  /\ form' = IF file # <<>> /\ EndsWith(file[1].name, DotPdb)
             THEN [form EXCEPT !.pdbFile = TRUE] ELSE form
  /\ toasts' = <<>>
  /\ requests' = <<>>
  /\ UNCHANGED <<clickVars, resultFiles, parsedByFile, datMutations, selectedMutation,
                 heatmap, stage, loading, zipMode, zipData, polls, archive, sessions>>

\* onCheckBox (lines 50-53)
CheckBox ==
  /\ form' = [form EXCEPT !.detect_interface = ~form.detect_interface,
                          !.mutations = <<>>]
  /\ toasts' = <<>>
  /\ requests' = <<>>
  /\ UNCHANGED <<clickVars, resultFiles, parsedByFile, datMutations, selectedMutation,
                 heatmap, stage, loading, zipMode, zipData, polls, archive, sessions>>

\* the user types into one of the text fields bound to the form
\* (lines 19-23)
TypeText(field, text) ==
  /\ form' = [form EXCEPT ![field] = text]
  /\ toasts' = <<>>
  /\ requests' = <<>>
  /\ UNCHANGED <<clickVars, resultFiles, parsedByFile, datMutations, selectedMutation,
                 heatmap, stage, loading, zipMode, zipData, polls, archive, sessions>>

\* a validation that asks for the structure file only
RefusalFileOnly(f) ==
  IF ~f.pdbFile THEN <<"Please upload a PDB file.">> ELSE <<>>

\* the warning of the first validation of onGoClick that fails, if any
\* (lines 62-77)
Refusal(f) ==
  IF ~f.pdbFile THEN <<"Please upload a PDB file.">>
  ELSE IF Trim(f.protein_chains) = <<>> THEN <<"Protein Chains must be entered.">>
  ELSE IF Trim(f.partner_chains) = <<>> THEN <<"Partner Chains must be entered.">>
  ELSE IF Trim(f.mutations) = <<>> /\ ~f.detect_interface
  THEN <<"Please provide Mutations or enable Detect Interface.">>
  ELSE <<>>

\* onGoClick (lines 60-98): an incomplete form is refused with a warning; a
\* complete one is posted
GoClick ==
  /\ IF Refusal(form) = <<>>
     THEN /\ Attempts < MaxSessions
          /\ loading' = TRUE
          /\ polls' = Append(polls, NewLoop(Len(polls) + 1))
          /\ toasts' = <<>>
     ELSE /\ toasts' = <<Toast("warning", Refusal(form)[1], <<>>, <<>>, <<>>, <<>>)>>
          /\ UNCHANGED <<loading, polls>>
  /\ requests' = <<>>
  /\ UNCHANGED <<clickVars, form, resultFiles, parsedByFile, datMutations, selectedMutation,
                 heatmap, stage, zipMode, zipData, archive, sessions>>

\* postData answers with a job id: the chosen file is forgotten, the job has
\* started, waitForResults is called and its first check calls fetchJobLog
\* (lines 83-90, 130-136)
PostAccepted(i) ==
  /\ polls[i].pc = "post"
  /\ polls' = [polls EXCEPT ![i].pc = "poll", ![i].checks = <<"log">>]
  /\ sessions' = Append(sessions, "remote")
  /\ form' = [form EXCEPT !.pdbFile = FALSE]
  /\ toasts' = <<Toast("success", "Processing started!", <<>>, <<>>, <<>>, <<>>)>>
  /\ requests' = <<>>
  /\ UNCHANGED <<clickVars, resultFiles, parsedByFile, datMutations, selectedMutation,
                 heatmap, stage, loading, zipMode, zipData, archive>>

\* postData fails (lines 92-96)
PostRejected(i) ==
  /\ polls[i].pc = "post"
  /\ polls' = [polls EXCEPT ![i].pc = "rejected"]
  /\ loading' = FALSE
  /\ toasts' = <<Toast("error", "Failed to start job.", <<>>, <<>>, <<>>, <<>>)>>
  /\ requests' = <<>>
  /\ UNCHANGED <<clickVars, form, resultFiles, parsedByFile, datMutations, selectedMutation,
                 heatmap, stage, zipMode, zipData, archive, sessions>>

\* the await of fetchJobLog settles (fetchJobLog catches its own failure),
\* and getResultList is called (lines 136-139)
LogSettled(i, c) ==
  /\ polls[i].pc = "poll"
  /\ polls[i].checks[c] = "log"
  /\ polls' = [polls EXCEPT ![i].checks[c] = "status"]
  /\ toasts' = <<>>
  /\ requests' = <<>>
  /\ UNCHANGED <<clickVars, form, resultFiles, parsedByFile, datMutations, selectedMutation,
                 heatmap, stage, loading, zipMode, zipData, archive, sessions>>

\* getJobLog fails: fetchJobLog catches the failure (lines 118-120), its
\* await settles and getResultList is called
LogFailed(i, c) ==
  /\ polls[i].pc = "poll"
  /\ polls[i].checks[c] = "log"
  /\ polls' = [polls EXCEPT ![i].checks[c] = "status", ![i].logFailed = TRUE]
  /\ toasts' = <<>>
  /\ requests' = <<>>
  /\ UNCHANGED <<clickVars, form, resultFiles, parsedByFile, datMutations, selectedMutation,
                 heatmap, stage, loading, zipMode, zipData, archive, sessions>>

\* a timeout that fires again and again, as an interval does
TimerRepeats(i) ==
  /\ polls[i].pc = "poll"
  /\ polls[i].timers > 0
  /\ Len(polls[i].checks) < 2
  /\ polls' = [polls EXCEPT ![i].checks = Append(polls[i].checks, "log")]
  /\ toasts' = <<>>
  /\ requests' = <<>>
  /\ UNCHANGED <<clickVars, form, resultFiles, parsedByFile, datMutations, selectedMutation,
                 heatmap, stage, loading, zipMode, zipData, archive, sessions>>

\* the timeout set at line 168 fires: check is called again.  Timeouts of
\* one interval fire in the order they were set, the one of timeoutHandle
\* last.
TimerFires(i) ==
  /\ polls[i].pc = "poll"
  /\ polls[i].timers > 0
  /\ polls' = [polls EXCEPT ![i].checks = Append(polls[i].checks, "log"),
                            ![i].timers = polls[i].timers - 1,
                            ![i].handle = polls[i].handle /\ polls[i].timers > 1]
  /\ toasts' = <<>>
  /\ requests' = <<>>
  /\ UNCHANGED <<clickVars, form, resultFiles, parsedByFile, datMutations, selectedMutation,
                 heatmap, stage, loading, zipMode, zipData, archive, sessions>>

\* a "pending" answer after which the check returns without scheduling the
\* next one
StatusPendingForgets(i, c) ==
  /\ polls[i].pc = "poll"
  /\ polls[i].checks[c] = "status"
  /\ polls[i].pending < MaxPolls
  /\ polls' = [polls EXCEPT ![i].checks = RemoveAt(polls[i].checks, c),
                            ![i].pending = polls[i].pending + 1]
  /\ toasts' = <<>>
  /\ requests' = <<>>
  /\ UNCHANGED <<clickVars, form, resultFiles, parsedByFile, datMutations, selectedMutation,
                 heatmap, stage, loading, zipMode, zipData, archive, sessions>>

\* getResultList answers "pending": the next check is scheduled and this
\* one returns (line 168)
StatusPending(i, c) ==
  /\ polls[i].pc = "poll"
  /\ polls[i].checks[c] = "status"
  /\ polls[i].pending < MaxPolls
  /\ polls' = [polls EXCEPT ![i].checks = RemoveAt(polls[i].checks, c),
                            ![i].timers = polls[i].timers + 1,
                            ![i].handle = TRUE,
                            ![i].pending = polls[i].pending + 1,
                            ![i].scheduled = polls[i].scheduled + 1]
  /\ toasts' = <<>>
  /\ requests' = <<>>
  /\ UNCHANGED <<clickVars, form, resultFiles, parsedByFile, datMutations, selectedMutation,
                 heatmap, stage, loading, zipMode, zipData, archive, sessions>>

\* a "completed" answer after which the check falls through to the
\* scheduling of the next one
StatusCompletedFallsThrough(i, c, files) ==
  /\ polls[i].pc = "poll"
  /\ polls[i].checks[c] = "status"
  /\ polls' = [polls EXCEPT ![i] = [polls[i] EXCEPT
                                      !.checks[c] = "pdbs", !.files = files,
                                      !.timers = @ + 1, !.handle = TRUE]]
  /\ resultFiles' = files
  /\ toasts' = <<Toast("success", "Results ready!", <<>>, <<>>, <<>>, <<>>)>>
  /\ requests' = <<>>
  /\ UNCHANGED <<clickVars, form, parsedByFile, datMutations, selectedMutation,
                 heatmap, stage, loading, zipMode, zipData, archive, sessions>>

\* getResultList answers "completed" with the list of files: the list is
\* saved and loadAllPdbsFromBackend is called, which waits for the viewer to
\* show (lines 142-154, 505-507)
StatusCompleted(i, c, files) ==
  /\ polls[i].pc = "poll"
  /\ polls[i].checks[c] = "status"
  /\ polls' = [polls EXCEPT ![i] = [ClearTimeout(polls[i]) EXCEPT
                                      !.checks[c] = "pdbs", !.files = files]]
  /\ resultFiles' = files
  /\ toasts' = <<Toast("success", "Results ready!", <<>>, <<>>, <<>>, <<>>)>>
  /\ requests' = <<>>
  /\ UNCHANGED <<clickVars, form, parsedByFile, datMutations, selectedMutation,
                 heatmap, stage, loading, zipMode, zipData, archive, sessions>>

\* a failure of getResultList that ends the check and nothing else
StatusFailedSilently(i, c) ==
  /\ polls[i].pc = "poll"
  /\ polls[i].checks[c] = "status"
  /\ polls' = [polls EXCEPT ![i] = [ClearTimeout(polls[i]) EXCEPT
                                      !.checks = RemoveAt(polls[i].checks, c),
                                      !.pc = "failed"]]
  /\ toasts' = <<>>
  /\ requests' = <<>>
  /\ UNCHANGED <<clickVars, form, resultFiles, parsedByFile, datMutations, selectedMutation,
                 heatmap, stage, loading, zipMode, zipData, archive, sessions>>

\* getResultList fails: the catch block (lines 170-175)
StatusFailed(i, c) ==
  /\ polls[i].pc = "poll"
  /\ polls[i].checks[c] = "status"
  /\ polls' = [polls EXCEPT ![i] = [ClearTimeout(polls[i]) EXCEPT
                                      !.checks = RemoveAt(polls[i].checks, c),
                                      !.pc = "failed"]]
  /\ loading' = FALSE
  /\ toasts' = <<Toast("error", "Error checking results", <<>>, <<>>, <<>>, <<>>)>>
  /\ requests' = <<>>
  /\ UNCHANGED <<clickVars, form, resultFiles, parsedByFile, datMutations, selectedMutation,
                 heatmap, stage, zipMode, zipData, archive, sessions>>

\* what becomes of one structure file of a bulk load
Outcomes == {"loaded", "fetch failed", "load failed"}

\* a load that adds the representation to a structure before its chain
\* names are normalized
LoadLogStyledFirst(outcome) ==
  IF outcome = "fetch failed" THEN <<"getFile", "error">>
  ELSE IF outcome = "load failed" THEN <<"getFile", "fetched", "loadFile", "error">>
  ELSE <<"getFile", "fetched", "loadFile", "loaded", "cartoon", "normalized">>

\* the operations on one structure file, in order, up to the failure if any:
\* the bytes are asked for, loadFile is called on them, the chain names of
\* the loaded structure are normalized and the representation is added
\* (lines 520-528)
LoadLog(outcome) ==
  IF outcome = "fetch failed" THEN <<"getFile", "error">>
  ELSE IF outcome = "load failed" THEN <<"getFile", "fetched", "loadFile", "error">>
  ELSE <<"getFile", "fetched", "loadFile", "loaded", "normalized", "cartoon">>

\* one pass of the loop of loadAllPdbsFromBackend (lines 518-534): the read
\* getFile makes, whether the file ends in the viewer, and the operations
LoadOne(jobId, filename, outcome) ==
  LET g == getFile(jobId, filename)
      o == IF g.ok THEN outcome ELSE "fetch failed"
  IN [file |-> filename, source |-> g.source, ok |-> o = "loaded",
      log |-> LoadLog(o)]

\* the end of loadAllPdbsFromBackend (lines 536-545) and what check does
\* next (lines 156-164): the tables are loaded, or without tables the check
\* ends
BulkLoadEnds(loop, c) ==
  LET datFiles == SelectSeq(loop.files, HasSuffixDat)
  IN [loop EXCEPT !.fits = @ + 1,
                  !.cleared = @ + 1,
                  !.checks = IF datFiles # <<>> THEN [@ EXCEPT ![c] = "dats"]
                             ELSE RemoveAt(@, c),
                  !.pc = IF datFiles # <<>> THEN "poll" ELSE "completed"]

\* loadAllPdbsFromBackend once the viewer shows (lines 509-520): the stage
\* is created or emptied and the first structure file is asked for
PdbsBegin(i, c) ==
  /\ polls[i].pc = "poll"
  /\ polls[i].checks[c] = "pdbs"
  /\ stage' = [created |-> TRUE, comps |-> <<>>]
  /\ IF SelectSeq(polls[i].files, HasSuffixPdb) = <<>>
     THEN /\ polls' = [polls EXCEPT ![i] = BulkLoadEnds(polls[i], c)]
          /\ requests' = <<"zoom", "scroll">>
          /\ loading' = FALSE
     ELSE /\ polls' = [polls EXCEPT ![i].checks[c] = "load"]
          /\ requests' = <<>>
          /\ UNCHANGED loading
  /\ toasts' = <<>>
  /\ UNCHANGED <<clickVars, form, resultFiles, parsedByFile, datMutations, selectedMutation,
                 heatmap, zipMode, zipData, archive, sessions>>

\* a bulk load that a failing file ends
PdbSettledAborts(i, c, outcome) ==
  /\ polls[i].pc = "poll"
  /\ polls[i].checks[c] = "load"
  /\ LET pdbFiles == SelectSeq(polls[i].files, HasSuffixPdb)
         k == Len(polls[i].reads) + 1
         read == LoadOne(polls[i].job, pdbFiles[k], outcome)
         loop == [polls[i] EXCEPT !.reads = Append(@, read)]
     IN /\ stage' = [stage EXCEPT !.comps = @ \o LoadedComps(<<read>>)]
        /\ toasts' = FailedToLoad(<<read>>)
        /\ IF k = Len(pdbFiles) \/ ~read.ok
           THEN /\ polls' = [polls EXCEPT ![i] = BulkLoadEnds(loop, c)]
                /\ requests' = <<"zoom", "scroll">>
                /\ loading' = FALSE
           ELSE /\ polls' = [polls EXCEPT ![i] = loop]
                /\ requests' = <<>>
                /\ UNCHANGED loading
  /\ UNCHANGED <<clickVars, form, resultFiles, parsedByFile, datMutations, selectedMutation,
                 heatmap, zipMode, zipData, archive, sessions>>

\* a bulk load that fits the camera as soon as its first file is done with
PdbSettledFitsFirst(i, c, outcome) ==
  /\ polls[i].pc = "poll"
  /\ polls[i].checks[c] = "load"
  /\ LET pdbFiles == SelectSeq(polls[i].files, HasSuffixPdb)
         k == Len(polls[i].reads) + 1
         read == LoadOne(polls[i].job, pdbFiles[k], outcome)
         loop == [polls[i] EXCEPT !.reads = Append(@, read)]
     IN /\ stage' = [stage EXCEPT !.comps = @ \o LoadedComps(<<read>>)]
        /\ toasts' = FailedToLoad(<<read>>)
        /\ IF k = Len(pdbFiles)
           THEN /\ polls' = [polls EXCEPT ![i] = [BulkLoadEnds(loop, c) EXCEPT !.fits = 1]]
                /\ requests' = <<"zoom", "scroll">>
                /\ loading' = FALSE
           ELSE /\ polls' = [polls EXCEPT ![i] = [loop EXCEPT !.fits = IF k = 1 THEN 1 ELSE @]]
                /\ requests' = <<>>
                /\ UNCHANGED loading
  /\ UNCHANGED <<clickVars, form, resultFiles, parsedByFile, datMutations, selectedMutation,
                 heatmap, zipMode, zipData, archive, sessions>>

\* a structure file of the bulk load is done with (lines 520-533): loaded
\* and shown, or reported as failed and skipped; the next file is asked
\* for, or after the last file the camera is fitted and the loading
\* indicator is cleared (lines 536-545)
PdbSettled(i, c, outcome) ==
  /\ polls[i].pc = "poll"
  /\ polls[i].checks[c] = "load"
  /\ LET pdbFiles == SelectSeq(polls[i].files, HasSuffixPdb)
         k == Len(polls[i].reads) + 1
         read == LoadOne(polls[i].job, pdbFiles[k], outcome)
         loop == [polls[i] EXCEPT !.reads = Append(@, read)]
     IN /\ stage' = [stage EXCEPT !.comps = @ \o LoadedComps(<<read>>)]
        /\ toasts' = FailedToLoad(<<read>>)
        /\ IF k = Len(pdbFiles)
           THEN /\ polls' = [polls EXCEPT ![i] = BulkLoadEnds(loop, c)]
                /\ requests' = <<"zoom", "scroll">>
                /\ loading' = FALSE
           ELSE /\ polls' = [polls EXCEPT ![i] = loop]
                /\ requests' = <<>>
                /\ UNCHANGED loading
  /\ UNCHANGED <<clickVars, form, resultFiles, parsedByFile, datMutations, selectedMutation,
                 heatmap, zipMode, zipData, archive, sessions>>

\* loadDatFilesAndPlot (lines 185-216) and the end of the check (lines
\* 161-164): every table file is fetched from the job, parsed and put in
\* the cache, the keys of the cache become the selection list, and the
\* combined heatmap is shown
DatsLoaded(i, c) ==
  /\ polls[i].pc = "poll"
  /\ polls[i].checks[c] = "dats"
  /\ LET cache == LoadDatFiles(parsedByFile, SelectSeq(polls[i].files, HasSuffixDat),
                               servedText)
     IN /\ parsedByFile' = cache
        /\ datMutations' = CacheKeys(cache)
        /\ selectedMutation' = AllMutations
        /\ heatmap' = <<CombinedMatrix(CacheValues(cache))>>
  /\ polls' = [polls EXCEPT ![i].checks = RemoveAt(polls[i].checks, c),
                            ![i].pc = "completed"]
  /\ loading' = FALSE
  /\ toasts' = <<>>
  /\ requests' = <<>>
  /\ UNCHANGED <<clickVars, form, resultFiles, stage, zipMode, zipData, archive, sessions>>

\* loadExistingJob up to JSZip.loadAsync (lines 356-367): anything but a
\* .zip file is refused
LoadExistingJob(file) ==
  /\ archive.pc = "idle"
  /\ IF file = <<>> \/ ~EndsWith(file[1].name, DotZip)
     THEN /\ toasts' = <<Toast("warning", "Please select a valid results ZIP (.zip)",
                               <<>>, <<>>, <<>>, <<>>)>>
          /\ UNCHANGED <<loading, archive>>
     ELSE /\ Attempts < MaxSessions
          /\ loading' = TRUE
          /\ archive' = [pc |-> "open", file |-> file, n |-> archive.n + 1,
                          reads |-> <<>>]
          /\ toasts' = <<>>
  /\ requests' = <<>>
  /\ UNCHANGED <<clickVars, form, resultFiles, parsedByFile, datMutations, selectedMutation,
                 heatmap, stage, zipMode, zipData, polls, sessions>>

\* the archive is open (lines 369-385): the application is in archive mode
\* and the list of files is that of the archive
ArchiveOpened ==
  /\ archive.pc = "open"
  /\ zipMode' = TRUE
  /\ zipData' = <<[files |-> archive.file[1].files]>>
  /\ resultFiles' = archive.file[1].files
  /\ sessions' = Append(sessions, "archive")
  /\ archive' = [archive EXCEPT !.pc = "load"]
  /\ toasts' = <<Toast("success", "Preview loaded from ZIP", <<>>, <<>>, <<>>, <<>>)>>
  /\ requests' = <<>>
  /\ UNCHANGED <<clickVars, form, parsedByFile, datMutations, selectedMutation,
                 heatmap, stage, loading, polls>>

\* the archive cannot be read (lines 423-428)
ArchiveFailed ==
  /\ archive.pc = "open"
  /\ archive' = [IdleArchive EXCEPT !.n = archive.n]
  /\ loading' = FALSE
  /\ toasts' = <<Toast("error", "Failed to load ZIP preview", <<>>, <<>>, <<>>, <<>>)>>
  /\ requests' = <<>>
  /\ UNCHANGED <<clickVars, form, resultFiles, parsedByFile, datMutations, selectedMutation,
                 heatmap, stage, zipMode, zipData, polls, sessions>>

\* what can go wrong with the structure entries of an archive: nothing, or
\* the read or the load of one of the first two entries
EntryFailures ==
  {<<>>} \cup {<<[at |-> k, outcome |-> o]>> :
                 k \in 1..2, o \in Outcomes \ {"loaded"}}

\* the passes of the loop of loadExistingJob over the structure entries
\* (lines 396-403), up to the entry that fails, if any: nothing catches the
\* failure inside the loop
RECURSIVE EntryReads(_, _, _)
EntryReads(pdbFiles, k, fail) ==
  IF k > Len(pdbFiles) THEN <<>>
  ELSE IF fail # <<>> /\ fail[1].at = k
  THEN <<[file |-> pdbFiles[k], source |-> "archive", ok |-> FALSE,
          log |-> LoadLog(fail[1].outcome)]>>
  ELSE <<[file |-> pdbFiles[k], source |-> "archive", ok |-> TRUE,
          log |-> LoadLog("loaded")]>>
       \o EntryReads(pdbFiles, k + 1, fail)

\* the rest of loadExistingJob (lines 387-428): the viewer is emptied, the
\* structures of the archive are shown, its tables are parsed and put in
\* the cache, and the combined heatmap is shown; a structure entry that
\* fails ends all of this at once (lines 423-428)
ArchiveLoaded(fail) ==
  /\ archive.pc = "load"
  /\ LET files == archive.file[1].files
         pdbFiles == SelectSeq(files, HasSuffixPdb)
         datFiles == SelectSeq(files, HasSuffixDat)
         cache == LoadDatFiles(parsedByFile, datFiles, servedText)
         reads == EntryReads(pdbFiles, 1, fail)
         thrown == reads # <<>> /\ ~reads[Len(reads)].ok
     IN /\ fail # <<>> => fail[1].at <= Len(pdbFiles)
        /\ stage' = [created |-> TRUE, comps |-> LoadedComps(reads)]
        /\ archive' = [IdleArchive EXCEPT !.n = archive.n, !.reads = reads]
        /\ IF thrown
           THEN /\ toasts' = <<Toast("error", "Failed to load ZIP preview",
                                     <<>>, <<>>, <<>>, <<>>)>>
                /\ requests' = <<>>
                /\ UNCHANGED <<parsedByFile, datMutations, selectedMutation, heatmap>>
           ELSE /\ toasts' = <<>>
                /\ requests' = <<"zoom", "scroll">>
                /\ IF datFiles # <<>>
                   THEN /\ parsedByFile' = cache
                        /\ datMutations' = CacheKeys(cache)
                        /\ selectedMutation' = AllMutations
                        /\ heatmap' = <<CombinedMatrix(CacheValues(cache))>>
                   ELSE UNCHANGED <<parsedByFile, datMutations, selectedMutation,
                                    heatmap>>
  /\ loading' = FALSE
  /\ UNCHANGED <<clickVars, form, resultFiles, zipMode, zipData, polls, sessions>>

\* what becomes of the structure files of a refresh, file by file
RefreshOutcomes == [1..2 -> Outcomes]

\* the job id of localStorage: set when a job is accepted (line 88 of
\* part_001), removed when an archive is opened (line 376)
HasJobId == sessions # <<>> /\ sessions[Len(sessions)] = "remote"

\* refreshViewer of NglViewerComponent (lines 460-521), which belongs to
\* the viewer once it shows: the structure files of resultFiles are loaded
\* again, from the archive in archive mode and else from the job of
\* localStorage; a file that fails is reported and skipped
RefreshViewer(outcomes) ==
  /\ stage.created
  /\ LET pdbFiles == SelectSeq(resultFiles, HasSuffixPdb)
         reads == [k \in DOMAIN pdbFiles |->
                     LoadOne(Len(polls), pdbFiles[k], outcomes[IF k <= 2 THEN k ELSE 2])]
         failed == FailedToLoad(reads)
         warning == IF zipMode
                    THEN (IF pdbFiles = <<>> THEN <<"No PDB files found in ZIP.">>
                          ELSE <<>>)
                    ELSE IF ~HasJobId THEN <<"No job found to reload.">>
                    ELSE IF pdbFiles = <<>> THEN <<"No PDB files found to reload.">>
                    ELSE <<>>
     IN IF warning # <<>>
        THEN /\ toasts' = <<Toast("warning", warning[1], <<>>, <<>>, <<>>, <<>>)>>
             /\ requests' = <<>>
             /\ UNCHANGED <<stage, loading, refresh>>
        ELSE /\ stage' = [stage EXCEPT !.comps = LoadedComps(reads)]
             /\ refresh' = reads
             /\ loading' = FALSE
             /\ IF zipMode
                THEN /\ toasts' = [k \in DOMAIN failed |->
                                     [failed[k] EXCEPT !.msg = "Failed to load from ZIP"]]
                                  \o <<Toast("success", "Viewer refreshed from ZIP.",
                                             <<>>, <<>>, <<>>, <<>>)>>
                     /\ requests' = <<"zoom">>
                ELSE /\ toasts' = failed
                                  \o <<Toast("success", "Viewer refreshed from backend.",
                                             <<>>, <<>>, <<>>, <<>>)>>
                     /\ requests' = <<"zoom", "scroll">>
  /\ UNCHANGED <<pdbStructure, servedText, returned, click, sel, others, form,
                 resultFiles, parsedByFile, datMutations, selectedMutation, heatmap,
                 zipMode, zipData, polls, archive, sessions, exported>>

\* a file exportResults packs: a structure file or an energy table
IsResultFile(f) == HasSuffixPdb(f) \/ HasSuffixDat(f)

\* the two images of an export
ViewerSnapshot == <<"v","i","e","w","e","r","_","s","n","a","p","s","h","o","t",".","p","n","g">>
CombinedHeatmap == <<"c","o","m","b","i","n","e","d","_","h","e","a","t","m","a","p",".","p","n","g">>

\* exportResults of DashboardComponent (dashboard.component.ts, lines
\* 40-94): every structure file and energy table of resultFiles is asked
\* of the remote API under the job id of localStorage and packed; the fetch
\* of file number fail is rejected (0: none is), which ends the handler
\* with nothing packed or saved.  Then the image of the viewer (photo:
\* whether it can be made) and the image of the combined heatmap, which is
\* shown first when another one is displayed (image: whether it can be
\* made), are added and the archive is saved.
ExportResults(fail, photo, image) ==
  /\ LET files == SelectSeq(resultFiles, IsResultFile)
         n == IF fail = 0 THEN Len(files) ELSE fail
         reads == [k \in 1..n |->
                     [file |-> files[k], source |-> "remote", job |-> HasJobId,
                      ok |-> k # fail]]
         all == CacheValues(parsedByFile)
     IN /\ fail <= Len(files)
        /\ IF resultFiles = <<>>
           THEN /\ toasts' = <<Toast("warning", "No results to export yet.",
                                     <<>>, <<>>, <<>>, <<>>)>>
                /\ UNCHANGED <<exported, selectedMutation, heatmap>>
           ELSE IF fail # 0
           THEN /\ toasts' = <<>>
                /\ exported' = <<[archiveMode |-> zipMode /\ zipData # <<>>,
                                  reads |-> reads, packed |-> <<>>, saved |-> FALSE]>>
                /\ UNCHANGED <<selectedMutation, heatmap>>
           ELSE /\ toasts' =
                     (IF photo THEN <<>>
                      ELSE <<Toast("warning", "Viewer image could not be captured.",
                                   <<>>, <<>>, <<>>, <<>>)>>)
                     \o (IF image THEN <<>>
                         ELSE <<Toast("warning", "Could not export heatmap image.",
                                      <<>>, <<>>, <<>>, <<>>)>>)
                     \o <<Toast("success", "Results exported successfully!",
                                <<>>, <<>>, <<>>, <<>>)>>
                /\ exported' = <<[archiveMode |-> zipMode /\ zipData # <<>>,
                                  reads |-> reads,
                                  packed |-> files
                                             \o (IF photo THEN <<ViewerSnapshot>> ELSE <<>>)
                                             \o (IF image THEN <<CombinedHeatmap>> ELSE <<>>),
                                  saved |-> TRUE]>>
                /\ IF selectedMutation # AllMutations /\ all # <<>>
                   THEN /\ selectedMutation' = AllMutations
                        /\ heatmap' = <<CombinedMatrix(all)>>
                   ELSE UNCHANGED <<selectedMutation, heatmap>>
  /\ requests' = <<>>
  /\ UNCHANGED <<pdbStructure, servedText, returned, click, sel, others, refresh, form,
                 resultFiles, parsedByFile, datMutations, stage, loading, zipMode,
                 zipData, polls, archive, sessions>>

\* postData answers without a job id (lines 83-91): the chosen file is
\* forgotten and nothing else is done; the tap of postData has raised its
\* toast (line 246)
PostAcceptedNoJob(i) ==
  /\ polls[i].pc = "post"
  /\ polls' = [polls EXCEPT ![i].pc = "no job"]
  /\ form' = [form EXCEPT !.pdbFile = FALSE]
  /\ toasts' = <<Toast("success", "Processing started!", <<>>, <<>>, <<>>, <<>>)>>
  /\ requests' = <<>>
  /\ UNCHANGED <<clickVars, resultFiles, parsedByFile, datMutations, selectedMutation,
                 heatmap, stage, loading, zipMode, zipData, archive, sessions>>

\* getFileContent fails on the k-th table file of loadDatFilesAndPlot
\* (line 190): the tables before it are in the cache already, the rest of
\* loadDatFilesAndPlot is skipped and the catch block of check runs
\* (lines 170-175)
DatsFailed(i, c, k) ==
  /\ polls[i].pc = "poll"
  /\ polls[i].checks[c] = "dats"
  /\ LET datFiles == SelectSeq(polls[i].files, HasSuffixDat)
     IN /\ k \in DOMAIN datFiles
        /\ parsedByFile' = LoadDatFiles(parsedByFile, SubSeq(datFiles, 1, k - 1),
                                        servedText)
  /\ polls' = [polls EXCEPT ![i] = [ClearTimeout(polls[i]) EXCEPT
                                      !.checks = RemoveAt(polls[i].checks, c),
                                      !.pc = "failed"]]
  /\ loading' = FALSE
  /\ toasts' = <<Toast("error", "Error checking results", <<>>, <<>>, <<>>, <<>>)>>
  /\ requests' = <<>>
  /\ UNCHANGED <<clickVars, form, resultFiles, datMutations, selectedMutation,
                 heatmap, stage, zipMode, zipData, archive, sessions>>

\* the application as it is constructed: no files, an empty cache, no
\* viewer stage, remote mode; f is the form, structure what the structure
\* files of the session will hold
Constructed(f, structure) ==
  /\ resultFiles = <<>>
  /\ pdbStructure = structure
  /\ parsedByFile = <<>>
  /\ datMutations = <<>>
  /\ selectedMutation = <<>>
  /\ heatmap = <<>>
  /\ stage = [created |-> FALSE, comps |-> <<>>]
  /\ loading = FALSE
  /\ toasts = <<>>
  /\ requests = <<>>
  /\ returned = <<>>
  /\ click = IdleClick
  /\ sel = IdleSel
  /\ servedText = Docs
  /\ zipMode = FALSE
  /\ zipData = <<>>
  /\ polls = <<>>
  /\ archive = IdleArchive
  /\ sessions = <<>>
  /\ form = f
  /\ others = <<>>
  /\ refresh = <<>>
  /\ exported = <<>>

\* the user has chosen a structure file and filled in the form, and chooses
\* no other file
InitSession == Constructed(FilledForm, Structure60)

NextSession ==
  \/ GoClick
  \/ \E i \in DOMAIN polls : PostAccepted(i)
  \/ \E i \in DOMAIN polls : PostRejected(i)
  \/ \E i \in DOMAIN polls : \E c \in DOMAIN polls[i].checks : LogSettled(i, c)
  \/ \E i \in DOMAIN polls : \E c \in DOMAIN polls[i].checks : StatusPending(i, c)
  \/ \E i \in DOMAIN polls : \E c \in DOMAIN polls[i].checks :
       \E files \in SessionFileLists : StatusCompleted(i, c, files)
  \/ \E i \in DOMAIN polls : \E c \in DOMAIN polls[i].checks : StatusFailed(i, c)
  \/ \E i \in DOMAIN polls : TimerFires(i)
  \/ \E i \in DOMAIN polls : \E c \in DOMAIN polls[i].checks : PdbsBegin(i, c)
  \/ \E i \in DOMAIN polls : \E c \in DOMAIN polls[i].checks :
       \E outcome \in Outcomes : PdbSettled(i, c, outcome)
  \/ \E i \in DOMAIN polls : \E c \in DOMAIN polls[i].checks : DatsLoaded(i, c)
  \/ \E file \in ArchiveInputs : LoadExistingJob(file)
  \/ ArchiveOpened
  \/ ArchiveFailed
  \/ \E fail \in EntryFailures : ArchiveLoaded(fail)

SpecSession == InitSession /\ [][NextSession]_vars

(***************************************************************************)
(* The first session of a user who lets the application settle before      *)
(* acting again, on a job that is completed when first checked:            *)
(* submitting a job or opening an archive, then refreshing the viewer and  *)
(* clicking cells of the heatmap, each followed to its end.                *)
(***************************************************************************)
Quiet ==
  /\ click.pc = "idle"
  /\ archive.pc = "idle"
  /\ \A i \in DOMAIN polls : polls[i].pc \in {"rejected", "no job", "completed", "failed"}

NextLoads ==
  \/ Quiet /\ Attempts = 0 /\ GoClick
  \/ \E i \in DOMAIN polls : PostAccepted(i)
  \/ \E i \in DOMAIN polls : \E c \in DOMAIN polls[i].checks : LogSettled(i, c)
  \/ \E i \in DOMAIN polls : \E c \in DOMAIN polls[i].checks :
       \E files \in SessionFileLists : StatusCompleted(i, c, files)
  \/ \E i \in DOMAIN polls : \E c \in DOMAIN polls[i].checks : PdbsBegin(i, c)
  \/ \E i \in DOMAIN polls : \E c \in DOMAIN polls[i].checks :
       \E outcome \in Outcomes : PdbSettled(i, c, outcome)
  \/ \E i \in DOMAIN polls : \E c \in DOMAIN polls[i].checks : DatsLoaded(i, c)
  \/ Quiet /\ Attempts = 0 /\ \E file \in ArchiveInputs : LoadExistingJob(file)
  \/ ArchiveOpened
  \/ \E fail \in EntryFailures : ArchiveLoaded(fail)
  \/ Quiet /\ \E outcomes \in RefreshOutcomes : RefreshViewer(outcomes)
  \/ /\ Quiet
     /\ heatmap # <<>>
     /\ \E y \in Range(heatmap[1].y), x \in Range(heatmap[1].x) : ClickStart(y, x)
  \/ ClickFetched
  \/ ClickLoaded
  \/ ClickLocate

\* a structure whose residue 60 has its chain name in segid only
StructureSegid ==
  << Residue(60, <<"A","L","A">>, <<>>, <<"p","r","o","c"," ">>, 7),
     Residue(60, <<"G","L","U">>, <<"A">>, <<>>, 12) >>

InitLoads ==
  \E structure \in {Structure60, StructureSegid} : Constructed(FilledForm, structure)

SpecLoads == InitLoads /\ [][NextLoads]_vars

(***************************************************************************)
(* Sessions with everything that can fail in them: a user who lets each    *)
(* session and each click come to its end before acting again, on jobs     *)
(* that are completed when first checked.                                  *)
(***************************************************************************)
NextFailures ==
  \/ Quiet /\ GoClick
  \/ \E i \in DOMAIN polls : PostAccepted(i)
  \/ \E i \in DOMAIN polls : PostAcceptedNoJob(i)
  \/ \E i \in DOMAIN polls : PostRejected(i)
  \/ \E i \in DOMAIN polls : \E c \in DOMAIN polls[i].checks : LogSettled(i, c)
  \/ \E i \in DOMAIN polls : \E c \in DOMAIN polls[i].checks :
       \E files \in SessionFileLists : StatusCompleted(i, c, files)
  \/ \E i \in DOMAIN polls : \E c \in DOMAIN polls[i].checks : StatusFailed(i, c)
  \/ \E i \in DOMAIN polls : \E c \in DOMAIN polls[i].checks : PdbsBegin(i, c)
  \/ \E i \in DOMAIN polls : \E c \in DOMAIN polls[i].checks :
       \E outcome \in Outcomes : PdbSettled(i, c, outcome)
  \/ \E i \in DOMAIN polls : \E c \in DOMAIN polls[i].checks : DatsLoaded(i, c)
  \/ \E i \in DOMAIN polls : \E c \in DOMAIN polls[i].checks :
       \E k \in 1..MaxFiles : DatsFailed(i, c, k)
  \/ Quiet /\ \E file \in ArchiveInputs : LoadExistingJob(file)
  \/ ArchiveOpened
  \/ ArchiveFailed
  \/ \E fail \in EntryFailures : ArchiveLoaded(fail)
  \/ /\ Quiet
     /\ heatmap # <<>>
     /\ \E y \in Range(heatmap[1].y), x \in Range(heatmap[1].x) : ClickStart(y, x)
  \/ ClickFetched
  \/ ClickFetchFailed
  \/ ClickLoaded
  \/ ClickLoadFailed
  \/ ClickLocate

SpecFailures == InitSession /\ [][NextFailures]_vars

(***************************************************************************)
(* The first session of a user who selects tables and exports the results, *)
(* each followed to its end.                                               *)
(***************************************************************************)
NextExport ==
  \/ Quiet /\ Attempts = 0 /\ GoClick
  \/ \E i \in DOMAIN polls : PostAccepted(i)
  \/ \E i \in DOMAIN polls : \E c \in DOMAIN polls[i].checks : LogSettled(i, c)
  \/ \E i \in DOMAIN polls : \E c \in DOMAIN polls[i].checks :
       \E files \in SessionFileLists : StatusCompleted(i, c, files)
  \/ \E i \in DOMAIN polls : \E c \in DOMAIN polls[i].checks : PdbsBegin(i, c)
  \/ \E i \in DOMAIN polls : \E c \in DOMAIN polls[i].checks :
       \E outcome \in Outcomes : PdbSettled(i, c, outcome)
  \/ \E i \in DOMAIN polls : \E c \in DOMAIN polls[i].checks : DatsLoaded(i, c)
  \/ Quiet /\ Attempts = 0 /\ \E file \in ArchiveInputs : LoadExistingJob(file)
  \/ ArchiveOpened
  \/ \E fail \in EntryFailures : ArchiveLoaded(fail)
  \/ Quiet /\ \E m \in Range(datMutations) : SelectStart(m)
  \/ SelectFetched
  \/ SelectPlot
  \/ /\ Quiet /\ sel.pc = "idle"
     /\ \E fail \in 0..MaxFiles, photo \in BOOLEAN, image \in BOOLEAN :
          ExportResults(fail, photo, image)

SpecExport == InitSession /\ [][NextExport]_vars

(***************************************************************************)
(* One job whose status fetches all succeed and which is reported          *)
(* completed after at most MaxPolls "pending" answers; the fetches of its  *)
(* log may fail.  Requests are answered, timeouts fire and awaited         *)
(* promises settle: each step that is enabled is taken in the end.         *)
(***************************************************************************)
LogAnswers == \E i \in DOMAIN polls : \E c \in DOMAIN polls[i].checks :
                LogSettled(i, c) \/ LogFailed(i, c)
StatusAnswers ==
  \E i \in DOMAIN polls : \E c \in DOMAIN polls[i].checks :
    \/ StatusPending(i, c)
    \/ \E files \in SessionFileLists : StatusCompleted(i, c, files)
TimeoutFires == \E i \in DOMAIN polls : TimerFires(i)
StructuresLoad ==
  \E i \in DOMAIN polls : \E c \in DOMAIN polls[i].checks :
    \/ PdbsBegin(i, c)
    \/ \E outcome \in Outcomes : PdbSettled(i, c, outcome)
\* what a DatsLoaded step does to the polling loops
TablesLoad ==
  \E i \in DOMAIN polls : \E c \in DOMAIN polls[i].checks :
    /\ polls[i].pc = "poll"
    /\ polls[i].checks[c] = "dats"
    /\ polls' = [polls EXCEPT ![i].checks = RemoveAt(polls[i].checks, c),
                              ![i].pc = "completed"]

NextPolling ==
  \/ Attempts = 0 /\ GoClick
  \/ \E i \in DOMAIN polls : PostAccepted(i)
  \/ \E i \in DOMAIN polls : \E c \in DOMAIN polls[i].checks : LogSettled(i, c)
  \/ \E i \in DOMAIN polls : \E c \in DOMAIN polls[i].checks : LogFailed(i, c)
  \/ \E i \in DOMAIN polls : \E c \in DOMAIN polls[i].checks : StatusPending(i, c)
  \/ \E i \in DOMAIN polls : \E c \in DOMAIN polls[i].checks :
       \E files \in SessionFileLists : StatusCompleted(i, c, files)
  \/ \E i \in DOMAIN polls : TimerFires(i)
  \/ \E i \in DOMAIN polls : \E c \in DOMAIN polls[i].checks : PdbsBegin(i, c)
  \/ \E i \in DOMAIN polls : \E c \in DOMAIN polls[i].checks :
       \E outcome \in Outcomes : PdbSettled(i, c, outcome)
  \/ \E i \in DOMAIN polls : \E c \in DOMAIN polls[i].checks : DatsLoaded(i, c)

SpecPolling ==
  /\ InitSession
  /\ [][NextPolling]_vars
  /\ WF_vars(LogAnswers)
  /\ WF_vars(StatusAnswers)
  /\ WF_vars(TimeoutFires)
  /\ WF_vars(StructuresLoad)
  /\ WF_polls(TablesLoad)

(***************************************************************************)
(* Filling in the form and submitting it: the handlers of                  *)
(* PdbInputFormComponent up to the answer of postData.                     *)
(***************************************************************************)
InitForm == Constructed(EmptyForm, Structure60)

NextForm ==
  \/ \E file \in FileInputs : FileChange(file)
  \/ CheckBox
  \/ \E field \in {"protein_chains", "partner_chains", "mutations"} :
       \E text \in Texts : TypeText(field, text)
  \/ GoClick
  \/ \E i \in DOMAIN polls : PostAccepted(i)
  \/ \E i \in DOMAIN polls : PostRejected(i)

SpecForm == InitForm /\ [][NextForm]_vars


(***************************************************************************)
(* C18                                                                     *)
(***************************************************************************)
\* the keys of the tables of a list of files
SessionKeys(files) ==
  {KeyOfFile(files[k]) : k \in {j \in DOMAIN files : HasSuffixDat(files[j])}}

\* this step ends the load of the results of job i
JobLoadEnds(i) == polls[i].pc = "poll" /\ polls'[i].pc = "completed"

\* this step ends the load of an archive
ArchiveLoadEnds == archive.pc = "load" /\ archive'.pc = "idle"

\* the cache and the selection list hold the tables of these files and no
\* other, after the step
CacheIsExactly(files) ==
  /\ Range(CacheKeys(parsedByFile')) = SessionKeys(files)
  /\ Range(datMutations') = SessionKeys(files)

\* C18: when the load of the results of a job or of an archive ends, the
\* cache and the selection list hold exactly the tables of that job or
\* archive: no key of an earlier session remains.
C18_ResetClearsCache ==
  [][ /\ \A i \in DOMAIN polls : JobLoadEnds(i) => CacheIsExactly(polls'[i].files)
      /\ ArchiveLoadEnds => CacheIsExactly(archive.file[1].files) ]_vars

(***************************************************************************)
(* C19                                                                     *)
(***************************************************************************)
\* C19: every getFile call reads from the source of the session started
\* last: from the remote job when that was a job, from the archive when
\* that was an archive.
C19_FetchSource ==
  [][ \A i \in DOMAIN polls :
        polls'[i].reads # polls[i].reads =>
          polls'[i].reads[Len(polls'[i].reads)].source = sessions[Len(sessions)] ]_vars

(***************************************************************************)
(* C20                                                                     *)
(***************************************************************************)
\* the checks of loop i that wait for the log or for the status
Polling(i) ==
  {c \in DOMAIN polls[i].checks : polls[i].checks[c] \in {"log", "status"}}

\* C20: in one polling loop at most one check is in flight; a check is
\* scheduled only by a check whose log fetch and status fetch have both
\* settled, which ends in that step, so that a scheduled check and a
\* running one never coexist; and the checks scheduled are as many as the
\* "pending" answers received.
C20_OneCheckAtATime ==
  /\ [](\A i \in DOMAIN polls :
          /\ Len(polls[i].checks) <= 1
          /\ polls[i].timers <= 1
          /\ polls[i].timers > 0 => polls[i].checks = <<>>
          /\ polls[i].scheduled = polls[i].pending)
  /\ [][ \A i \in DOMAIN polls :
           polls'[i].scheduled # polls[i].scheduled =>
             /\ polls'[i].scheduled = polls[i].scheduled + 1
             /\ polls'[i].pending = polls[i].pending + 1
             /\ polls[i].checks = <<"status">>
             /\ polls'[i].checks = <<>> ]_vars

\* a loop got MaxPolls "pending" answers, and the check its last timeout
\* started waits for the status
C20_Witness ==
  \E i \in DOMAIN polls :
    /\ polls[i].pending = MaxPolls
    /\ polls[i].scheduled = MaxPolls
    /\ polls[i].checks = <<"status">>
    /\ polls[i].timers = 0


(***************************************************************************)
(* C21                                                                     *)
(***************************************************************************)
\* a check of loop i has received the answer "completed"
GotCompleted(i) ==
  \/ polls[i].pc = "completed"
  \/ \E c \in DOMAIN polls[i].checks : polls[i].checks[c] \in {"pdbs", "load", "dats"}

StatusFails(i) == polls[i].pc = "poll" /\ polls'[i].pc = "failed"

\* C22: a status fetch that fails stops the polling loop (no check is armed
\* or running afterwards, for ever), clears the loading indicator and raises
\* the error "Error checking results"; resultFiles and the cache are left
\* as they were.
C22_StatusFailureStops ==
  /\ [](\A i \in DOMAIN polls :
          polls[i].pc = "failed" =>
            polls[i].timers = 0 /\ ~polls[i].handle /\ polls[i].checks = <<>>)
  /\ [][ \A i \in DOMAIN polls :
           /\ StatusFails(i) =>
                /\ loading' = FALSE
                /\ toasts' = <<Toast("error", "Error checking results",
                                     <<>>, <<>>, <<>>, <<>>)>>
                /\ resultFiles' = resultFiles
                /\ parsedByFile' = parsedByFile
                /\ datMutations' = datMutations
           /\ polls[i].pc = "failed" => polls'[i] = polls[i] ]_vars

\* the status fetch of a re-check failed while the loading indicator was
\* set, and the indicator is cleared
C22_Witness ==
  \E i \in DOMAIN polls :
    /\ polls[i].pc = "failed"
    /\ polls[i].scheduled >= 1
    /\ ~loading
    /\ toasts = <<Toast("error", "Error checking results", <<>>, <<>>, <<>>, <<>>)>>


(***************************************************************************)
(* C23                                                                     *)
(***************************************************************************)
\* the structure files of the list loop i was given
PdbFilesOf(i) == SelectSeq(polls[i].files, HasSuffixPdb)

\* this step is done with a structure file of the bulk load of loop i
FileSettles(i) == polls'[i].reads # polls[i].reads

\* the file done with in such a step
SettledRead(i) == polls'[i].reads[Len(polls'[i].reads)]

C24_ArchiveLoadIsolatesFailures ==
  [][ ArchiveLoadEnds =>
        LET files == archive.file[1].files
            pdbFiles == SelectSeq(files, HasSuffixPdb)
            reads == archive'.reads
        IN /\ Len(reads) = Len(pdbFiles)
           /\ \A k \in DOMAIN reads :
                ~reads[k].ok =>
                  \E t \in DOMAIN toasts' :
                    toasts'[t].level = "error" /\ toasts'[t].file = reads[k].file
           /\ stage'.comps = LoadedComps(reads)
           /\ SessionKeys(files) \subseteq Range(CacheKeys(parsedByFile')) ]_vars

Blank(t) == \A k \in DOMAIN t : IsSpace(t[k])

\* a structure file is chosen, both chain fields are non-blank, and the
\* mutations are non-blank or detect-interface is enabled
Complete(f) ==
  /\ f.pdbFile
  /\ ~Blank(f.protein_chains)
  /\ ~Blank(f.partner_chains)
  /\ ~Blank(f.mutations) \/ f.detect_interface

C26_RemovedBeforeFetch ==
  click.pc = "fetch" => stage.comps = <<>>

\* C26, amended: the click handler leaves the viewer as it is when it
\* requests the new structure file, and empties it when the bytes have
\* arrived, before it calls loadFile: the viewer is empty as long as the
\* load is in flight.
C26_RemovedBeforeLoad ==
  /\ [](click.pc = "load" => stage.comps = <<>>)
  /\ [][ /\ click.pc = "idle" /\ click'.pc = "fetch" => stage' = stage
         /\ click.pc = "fetch" /\ click'.pc = "load" =>
              /\ stage'.comps = <<>>
              /\ click'.log = click.log \o <<"fetched", "removed", "loadFile">> ]_vars

\* the bytes of the file of a click have arrived, the structures of the
\* session have been removed and the load is in flight
C26_Witness ==
  /\ click.pc = "load"
  /\ resultFiles # <<>>
  /\ stage.created
  /\ stage.comps = <<>>
  /\ "removed" \in Range(click.log)

(***************************************************************************)
(* C27                                                                     *)
(***************************************************************************)
\* this step ends the last click handler in flight
AllSettle ==
  /\ click.pc # "idle" \/ others # <<>>
  /\ click'.pc = "idle"
  /\ others' = <<>>

\* C27: when the last click handler in flight ends, having loaded its
\* structure, the viewer holds at most one structure, and when that handler
\* is the one of the most recent click, a structure the viewer holds is the
\* one of its target.
C27_OneStructurePerClick ==
  [][ AllSettle /\ returned' # <<>> /\ "loaded" \in Range(returned'[1].log) =>
        /\ Len(stage'.comps) <= 1
        /\ click.pc = "settle" /\ stage'.comps # <<>> =>
             stage'.comps[1].file = click.target ]_vars

(***************************************************************************)
(* C28                                                                     *)
(***************************************************************************)
\* this step is the failure of the fetch of the click handler
FetchFails == click.pc = "fetch" /\ click'.pc = "idle"

\* C28: when the fetch of the click-driven load fails, exactly one error
\* naming the target is raised, the loading indicator is cleared, and the
\* viewer is as it was before the click: the handler changed nothing in it
\* when it started, nothing while it waited and nothing when it failed, and
\* it neither loaded nor highlighted anything.
C28_FetchFailureAborts ==
  [][ /\ click'.pc = "fetch" => stage' = stage
      /\ FetchFails =>
           /\ stage' = stage
           /\ loading' = FALSE
           /\ toasts' = <<Toast("error", "Could not load PDB for", click.target,
                                <<>>, <<>>, <<>>)>>
           /\ requests' = <<>>
           /\ returned' # <<>>
           /\ returned'[1].target = click.target
           /\ returned'[1].comp = 0
           /\ Range(returned'[1].log) \cap {"loadFile", "loaded", "cartoon", "highlight"} = {} ]_vars

\* the fetch of a click failed: the error names the target and the
\* structures of the session are still in the viewer
C28_Witness ==
  /\ returned # <<>>
  /\ returned[1].log[Len(returned[1].log)] = "error"
  /\ "fetched" \notin Range(returned[1].log)
  /\ toasts = <<Toast("error", "Could not load PDB for", returned[1].target,
                      <<>>, <<>>, <<>>)>>
  /\ ~loading
  /\ stage.comps # <<>>
  /\ \A k \in DOMAIN stage.comps : stage.comps[k].reprs = <<Cartoon>>


(***************************************************************************)
(* C29                                                                     *)
(***************************************************************************)
\* the operations made on the structure files gone through so far, file by
\* file: by the bulk loads of the jobs, by the archive load, by the viewer
\* refresh and by the click handlers
LoadLogs ==
  UNION { {polls[i].reads[k].log : k \in DOMAIN polls[i].reads} : i \in DOMAIN polls }
  \cup {archive.reads[k].log : k \in DOMAIN archive.reads}
  \cup {refresh[k].log : k \in DOMAIN refresh}
  \cup {others[k].log : k \in DOMAIN others}
  \cup {returned[k].log : k \in DOMAIN returned}
  \cup {click.log}

\* in a sequence of operations on a file, the normalization of the chain
\* names follows the load, is made for every load, and precedes the adding
\* of a representation and the enumeration of the residues
NormalizedInTime(log) ==
  \A k \in DOMAIN log :
    /\ log[k] = "loaded" => \E j \in DOMAIN log : j > k /\ log[j] = "normalized"
    /\ log[k] = "normalized" => \E j \in DOMAIN log : j < k /\ log[j] = "loaded"
    /\ log[k] \in {"cartoon", "highlight", "enumerated"} =>
         \E j \in DOMAIN log : j < k /\ log[j] = "normalized"

SubmissionFails ==
  \E i \in DOMAIN polls :
    polls[i].pc = "post" /\ polls'[i].pc \in {"rejected", "no job"}

\* a step in which a polling loop fails: the status cannot be fetched, or a
\* table of the completed job cannot be fetched
PollingFails ==
  \E i \in DOMAIN polls : polls[i].pc = "poll" /\ polls'[i].pc = "failed"

\* a step in which the load of an archive fails: the archive cannot be
\* read, or one of its structure entries cannot be loaded
ArchiveFails ==
  \/ archive.pc = "open" /\ archive'.pc = "idle"
  \/ /\ archive.pc = "load" /\ archive'.pc = "idle"
     /\ \E k \in DOMAIN archive'.reads : ~archive'.reads[k].ok

\* a step in which the load a click started fails
ClickLoadFails ==
  /\ click.pc \in {"fetch", "load"}
  /\ returned' # <<>>
  /\ returned'[1].log[Len(returned'[1].log)] = "error"

\* C31: every step in which a job submission, a polling loop, the load of
\* an archive or the load started by a click fails (a submission answered
\* without a job id and a table that cannot be fetched included) leaves the
\* loading indicator cleared and shows a message.
C31_FailureClearsLoading ==
  [][SubmissionFails \/ PollingFails \/ ArchiveFails \/ ClickLoadFails
       => loading' = FALSE /\ toasts' # <<>>]_vars


(***************************************************************************)
(* C32                                                                     *)
(***************************************************************************)
\* the whole name of file, case-insensitively, is
\* joined_proc_<n>_<one letter>2<m>.pdb
FollowsConvention(file, n, m) ==
  \E w \in LowerSet :
    ToLowerCase(file) = JoinedProc \o NumToStr(n) \o <<"_", w, "2">> \o m \o DotPdb

\* C32: for every click on a residue number n and a column label m of the
\* displayed heatmap (a letter, or the '?' the parser puts where a
\* mutation has none), what the resolver returns is not-found or a file of
\* resultFiles whose whole name, case-insensitively, is
\* joined_proc_<n>_<one letter>2<m>.pdb.
C32_ResolverKeepsConvention ==
  [][( /\ ClickStep
       /\ StartedClick.resno # <<>> )
     => \/ StartedClick.target = <<>>
        \/ /\ StartedClick.target \in Range(resultFiles)
           /\ FollowsConvention(StartedClick.target, StartedClick.resno[1],
                                StartedClick.mutant)]_vars


(***************************************************************************)
(* C33                                                                     *)
(***************************************************************************)
\* C33: an export made in an archive session reads every structure file
\* and energy table it packs from the opened archive, not from the remote
\* API, and the archive it saves holds every .pdb and .dat name of
\* resultFiles.
C33_ExportHonoursMode ==
  \A e \in Range(exported) :
    e.archiveMode =>
      /\ \A k \in DOMAIN e.reads : e.reads[k].source = "archive"
      /\ e.saved =>
           \A f \in Range(resultFiles) : IsResultFile(f) => f \in Range(e.packed)


(***************************************************************************)
(* C34                                                                     *)
(***************************************************************************)
\* the polling loop of the first job runs
FirstPolls == polls # <<>> /\ polls[1].pc = "poll"

\* the polling loop of the first job has stopped on completion, with the
\* reported list in resultFiles and the loading indicator cleared
FirstCompleted ==
  /\ polls # <<>>
  /\ polls[1].pc = "completed"
  /\ polls[1].checks = <<>>
  /\ polls[1].timers = 0
  /\ resultFiles = polls[1].files
  /\ ~loading

C35_HintsAgreeWithClick ==
  /\ [][( /\ ClickStep
          /\ StartedClick.resno # <<>>
          /\ StartedClick.target # <<>> )
        => /\ StartedClick.posFromName = StartedClick.resno
           /\ StartedClick.mutantThree # <<>>]_vars
  /\ [][LocateStep =>
          Range(NumberTier(returned'[1].residues, click.resno))
            \subseteq Range(NumberTier(returned'[1].residues, click.posFromName))]_vars


(***************************************************************************)
(* C36                                                                     *)
(***************************************************************************)
\* the displayed heatmap is that of the selection: of the combined view,
\* or of the table cached under the selected key
ShowsSelection(selected) ==
  IF selected = AllMutations
  THEN heatmap = <<CombinedMatrix(CacheValues(parsedByFile))>>
  ELSE /\ CacheGet(parsedByFile, selected) # <<>>
       /\ heatmap = <<SingleMatrix(CacheGet(parsedByFile, selected)[1])>>

\* C36: whenever the handler of a heatmap click starts, selectedMutation,
\* which its resolver reads, is the table, or the combined view, whose
\* heatmap is displayed.
C36_ClickUsesDisplayedSelection ==
  [][ClickStep => ShowsSelection(selectedMutation)]_vars


(***************************************************************************)
(* C37                                                                     *)
(***************************************************************************)
\* C37: in archive mode, zipMode set and an archive held, every name of
\* resultFiles is an entry of that archive.
C37_ResultFilesInArchive ==
  (zipMode /\ zipData # <<>>) =>
    \A f \in Range(resultFiles) : f \in Range(zipData[1].files)


(***************************************************************************)
(* C38                                                                     *)
(***************************************************************************)
\* the polling loops that run
ActiveLoops == {i \in DOMAIN polls : polls[i].pc = "poll"}

\* a step in which loop i writes resultFiles, the viewer or the cache
LoopWrites(i) ==
  /\ polls'[i] # polls[i]
  /\ \/ resultFiles' # resultFiles
     \/ stage' # stage
     \/ parsedByFile' # parsedByFile

\* C38: at most one polling loop runs at any time, and the completion of a
\* job writes resultFiles, the viewer and the cache only when the job is
\* the one submitted last.
C38_OnePollingLoop ==
  /\ [](Cardinality(ActiveLoops) <= 1)
  /\ [][\A i \in DOMAIN polls : LoopWrites(i) => i = Len(polls)]_vars


(***************************************************************************)
(* C39                                                                     *)
(***************************************************************************)
\* C39: while the results of a completed job are loaded, from the
\* "completed" answer to the end of the table load, the loading indicator
\* is set: it is not cleared between the end of the bulk load of the
\* structures and the end of the load of the tables.
C39_LoadingUntilTablesLoaded ==
  \A i \in DOMAIN polls :
    \A c \in DOMAIN polls[i].checks :
      (polls[i].pc = "poll" /\ polls[i].checks[c] \in {"pdbs", "load", "dats"})
        => loading

=============================================================================
